---- MODULE Spec2Model ----
(***************************************************************************)
(* Kustomize Navigator: reference resolution, the bidirectional reference  *)
(* index, the file watcher (debounce, mass-change detection) and the       *)
(* filesystem cache.                                                       *)
(*                                                                         *)
(* Strings.  Every string the program handles (a path, a reference, an     *)
(* apiVersion) is modelled as the sequence of its '/'-separated segments:  *)
(*   "./infra/base"  = << ".", "infra", "base" >>                           *)
(*   "/repo/base"    = << "", "repo", "base" >>     (leading "" = leading /)*)
(*   ""              = << "" >>                                            *)
(* The map is a bijection between strings and non-empty sequences of       *)
(* slash-free segments, so startsWith('./'), slice(2), path.isAbsolute and *)
(* string concatenation with '/' are exact.                                *)
(*                                                                         *)
(* YAML values are tagged: JStr(s), JArr(seq), JObj(record), JNull.  A     *)
(* parsed document is a record from its top-level keys to such values.     *)
(***************************************************************************)
EXTENDS Integers, Sequences, FiniteSets, TLC

(***************************************************************************)
(* Generic helpers.  Bind and Fold evaluate their operands once: the value *)
(* is bound by a quantifier before the operator is applied to it.          *)
(***************************************************************************)
Bind(v, F(_)) == CHOOSE y \in { F(x) : x \in { v } } : TRUE

RECURSIVE FoldSeq(_, _, _)
FoldSeq(Op(_, _), acc, s) ==
    IF s = << >> THEN acc
    ELSE Bind(<< Op(acc, Head(s)), Tail(s) >>, LAMBDA x : FoldSeq(Op, x[1], x[2]))

\* Op(...Op(Op(acc, s[1]), s[2])..., s[n])
Fold(Op(_, _), acc, s) == Bind(<< acc, s >>, LAMBDA x : FoldSeq(Op, x[1], x[2]))

Range(s) == { s[i] : i \in 1..Len(s) }

Concat(ss) == Fold(LAMBDA a, x : a \o x, << >>, ss)

IsPrefix(a, b) == Len(a) <= Len(b) /\ SubSeq(b, 1, Len(a)) = a

\* a JavaScript Map as a function on its keys
EmptyMap == << >>
Has(m, k) == k \in DOMAIN m
Put(m, k, v) == [x \in (DOMAIN m) \cup {k} |-> IF x = k THEN v ELSE m[x]]
Remove(m, k) == [x \in (DOMAIN m) \ {k} |-> m[x]]
Lookup(m, k) == IF k \in DOMAIN m THEN m[k] ELSE << >>

Max(a, b) == IF a >= b THEN a ELSE b

(***************************************************************************)
(* YAML values                                                             *)
(***************************************************************************)
\* a value is << tag, content >>
JStr(s) == << "str", s >>
JArr(a) == << "arr", a >>
JObj(o) == << "obj", o >>
JNull == << "null" >>
JUndef == << "undef" >>

\* obj.key of a record of YAML values; undefined when the key is missing
Get(o, k) == IF k \in DOMAIN o THEN o[k] ELSE JUndef

\* JavaScript truthiness: null, undefined and the empty string are falsy
Truthy(x) == /\ x[1] \notin {"null", "undef"}
             /\ ~(x[1] = "str" /\ x[2] = << "" >>)

IsString(x) == x[1] = "str"
IsArray(x) == x[1] = "arr"
IsObject(x) == x[1] = "obj"

\* Array.isArray(x) ? x : []
ArrayOrEmpty(x) == IF IsArray(x) THEN x[2] ELSE << >>

(***************************************************************************)
(* node:path (posix)                                                       *)
(***************************************************************************)
isAbsolute(s) == Len(s) >= 2 /\ s[1] = ""

\* normalizeString: drop '' and '.', let '..' pop a segment (never above /)
NormStep(acc, h) ==
    IF h \in {"", "."} THEN acc
    ELSE IF h = ".." THEN (IF acc = << >> THEN acc ELSE SubSeq(acc, 1, Len(acc) - 1))
    ELSE Append(acc, h)

NormSegs(segs) == Fold(NormStep, << >>, segs)

\* an absolute path from its normalized segments; "/" is << "", "" >>
AbsOf(segs) == << "" >> \o (IF Len(segs) = 0 THEN << "" >> ELSE segs)

\* path.normalize of an absolute path (no trailing slash in the model's paths)
normalize(p) == Bind(NormSegs(p), AbsOf)

\* path.resolve(base, ref) with base absolute
resolve(base, ref) == IF isAbsolute(ref) THEN normalize(ref) ELSE normalize(base \o ref)

\* path.join(dir, name) with dir absolute
join(dir, name) == normalize(dir \o << name >>)

\* path.dirname of a normalized absolute path
dirname(p) == IF Len(p) <= 2 THEN << "", "" >> ELSE SubSeq(p, 1, Len(p) - 1)

(***************************************************************************)
(* The workspace.  WorkspaceRoot is the folder the extension is opened on; *)
(* FilePaths are the YAML files that may exist in it; Dirs are their       *)
(* directories, which always exist.                                        *)
(***************************************************************************)
WorkspaceRoot == << "", "repo" >>

kustomizationYaml == "kustomization.yaml"
kustomizationYml == "kustomization.yml"

PathApp == << "", "repo", "clusters", "prod", "app.yaml" >>
appsKustomizationYaml == "apps-kustomization.yaml"
PathAppsK == << "", "repo", "clusters", "prod", appsKustomizationYaml >>
PathOverlay == << "", "repo", "overlays", "prod", kustomizationYaml >>
PathBase == << "", "repo", "base", kustomizationYaml >>
PathBaseYml == << "", "repo", "base", kustomizationYml >>
PathDeployment == << "", "repo", "base", "deployment.yaml" >>
PathRootK == << "", "repo", kustomizationYaml >>
PathP1 == << "", "repo", "p1.yaml" >>
PathP2 == << "", "repo", "p2.yaml" >>

FilePaths == { PathApp, PathAppsK, PathOverlay, PathBase, PathBaseYml, PathDeployment,
               PathRootK, PathP1, PathP2 }

Dirs == UNION { { SubSeq(p, 1, n) : n \in 2..(Len(p) - 1) } : p \in FilePaths }
            \cup { << "", "" >> }

VARIABLES
    files,              \* the file tree: FilePaths -> [exists, text, mtime]; text is
                        \* the sequence of the file's YAML documents, mtime counts
                        \* the writes of the path (a later write has a later mtime)
    fileReferences,     \* referenceMap.fileReferences
    fileBackReferences, \* referenceMap.fileBackReferences
    fileMetadata,       \* parser: file -> [mtime, references]
    fileExistsCache,    \* parser: path -> [exists, mtime]
    fileStatCache,      \* parser: path -> [mtime, isDirectory, isFile]
    gitRootCache,       \* parser: directory -> repository root
    builds,             \* the buildReferenceMap calls that await their glob
    watching,           \* initialize() has registered the watchers and the interval
    scanTimeout,        \* watcher: the pending debounce timer
    recentChangeEvents, \* watcher: length of the recentChangeEvents array
    cleanupLeft,        \* ms until the cleanup interval fires next
    pendingEvents,      \* watcher events raised by the file system, not yet delivered
    obs                 \* observations of the run, read by the properties only

fsVars == << files, pendingEvents >>
indexVars == << fileReferences, fileBackReferences, fileMetadata >>
fsCacheVars == << fileExistsCache, fileStatCache >>
cacheVars == << fileExistsCache, fileStatCache, gitRootCache >>
watcherVars == << watching, scanTimeout, recentChangeEvents, cleanupLeft >>
vars == << files, fileReferences, fileBackReferences, fileMetadata, fileExistsCache,
           fileStatCache, gitRootCache, builds, watching, scanTimeout, recentChangeEvents, cleanupLeft,
           pendingEvents, obs >>

Absent == [exists |-> FALSE, text |-> << >>, mtime |-> 0]
File(text) == [exists |-> TRUE, text |-> text, mtime |-> 1]

\* a document that js-yaml rejects
Malformed == << "malformed" >>

(***************************************************************************)
(* fs: the operating system's lookup of an absolute path string walks the  *)
(* segments; every intermediate component must be an existing directory.   *)
(***************************************************************************)
TypeOf(segs) ==
    Bind(AbsOf(segs), LAMBDA p :
        IF p \in Dirs THEN "dir"
        ELSE IF p \in FilePaths /\ files[p].exists THEN "file"
        ELSE "none")

\* one component of the walk; w is [ok, cur], cur the directory reached
WalkStep(w, h) ==
    IF ~w.ok \/ TypeOf(w.cur) # "dir" THEN [ok |-> FALSE, cur |-> << >>]
    ELSE IF h \in {"", "."} THEN w
    ELSE IF h = ".."
         THEN [w EXCEPT !.cur = IF @ = << >> THEN @ ELSE SubSeq(@, 1, Len(@) - 1)]
         ELSE [w EXCEPT !.cur = Append(@, h)]

\* fs.statSync(p): "file", "dir", or "none" (it throws)
Stat(p) ==
    IF ~isAbsolute(p) THEN "none"
    ELSE Bind(Fold(WalkStep, [ok |-> TRUE, cur |-> << >>], Tail(p)), LAMBDA w :
            IF w.ok THEN TypeOf(w.cur) ELSE "none")

\* fs.readFileSync(p) succeeds exactly on an existing regular file
CanRead(p) == p \in FilePaths /\ files[p].exists
ReadFile(p) == files[p].text

(***************************************************************************)
(* YamlUtils                                                               *)
(***************************************************************************)
\* the fields of a parsed document; a top-level YAML array has none
Fields(d) == IF IsObject(d) THEN d[2] ELSE << >>

\* the whole file loaded at once: one malformed document loses them all
parseMultipleYamlDocumentsWholeFile(text) ==
    IF Malformed \in Range(text) THEN << >>
    ELSE SelectSeq(text, LAMBDA d : IsObject(d) \/ IsArray(d))

\* split on '---', yaml.load each part, keep what parsed to an object
parseMultipleYamlDocuments(text) ==
    SelectSeq(text, LAMBDA d : IsObject(d) \/ IsArray(d))

FluxApiVersions == { << "kustomize.toolkit.fluxcd.io", "v1beta2" >>,
                     << "kustomize.toolkit.fluxcd.io", "v1beta1" >>,
                     << "kustomize.toolkit.fluxcd.io", "v1" >> }

Kustomization == JStr(<< "Kustomization" >>)

isFluxKustomizationDocument(content) ==
    LET api == Get(Fields(content), "apiVersion") IN
    /\ IsString(api) /\ api[2] \in FluxApiVersions
    /\ Get(Fields(content), "kind") = Kustomization

kustomizeFields == { "resources", "bases", "patchesStrategicMerge", "patchesJson6902",
                     "configMapGenerator", "secretGenerator", "generatorOptions",
                     "namePrefix", "nameSuffix", "commonLabels", "commonAnnotations" }

\* apiVersion values of the model are strings, so startsWith never throws
isStandardKustomizationDocument(content) ==
    LET api == Get(Fields(content), "apiVersion") IN
    IF Truthy(api) /\ IsString(api) /\ Len(api[2]) >= 2 /\ api[2][1] = "kustomize.config.k8s.io"
    THEN Get(Fields(content), "kind") = Kustomization
    ELSE Cardinality(kustomizeFields \cap DOMAIN Fields(content)) >= 2

containsFluxKustomizations(text) ==
    \E d \in Range(parseMultipleYamlDocuments(text)) : isFluxKustomizationDocument(d)

containsStandardKustomizations(text) ==
    \E d \in Range(parseMultipleYamlDocuments(text)) : isStandardKustomizationDocument(d)

getFluxKustomizationDocuments(text) ==
    SelectSeq(parseMultipleYamlDocuments(text), isFluxKustomizationDocument)

getStandardKustomizationDocuments(text) ==
    SelectSeq(parseMultipleYamlDocuments(text), isStandardKustomizationDocument)

(***************************************************************************)
(* KustomizeParser: classification, repository root, path resolution       *)
(***************************************************************************)
isKustomizationFile(filePath) ==
    /\ CanRead(filePath)
    /\ \/ containsFluxKustomizations(ReadFile(filePath))
       \/ containsStandardKustomizations(ReadFile(filePath))

isFluxKustomizationFile(filePath) ==
    CanRead(filePath) /\ containsFluxKustomizations(ReadFile(filePath))

\* the directories under version control: `git rev-parse --show-toplevel` run
\* in a directory below GitRepo prints GitRepo, and fails elsewhere
GitRepo == << "", "repo" >>

\* execSync('git rev-parse --show-toplevel', {cwd: dir}): it throws when dir is
\* in no repository
execSyncGit(dir) ==
    IF IsPrefix(GitRepo, dir) THEN [ok |-> TRUE, stdout |-> GitRepo]
    ELSE [ok |-> FALSE, stdout |-> << >>]

\* findGitRoot without the set in its catch: a failure is not remembered
findGitRootCallForgetful(cache, filePath) ==
    Bind(dirname(filePath), LAMBDA cacheKey :
        IF Has(cache, cacheKey)
        THEN [result |-> cache[cacheKey], cache |-> cache, execs |-> 0]
        ELSE Bind(execSyncGit(cacheKey), LAMBDA r :
                IF r.ok
                THEN [result |-> r.stdout, cache |-> Put(cache, cacheKey, r.stdout), execs |-> 1]
                ELSE [result |-> WorkspaceRoot, cache |-> cache, execs |-> 1]))

\* a call of findGitRoot on the cache: [result, cache, execs], the root it
\* returns, gitRootCache after it, and the number of subprocesses it ran
findGitRootCall(cache, filePath) ==
    Bind(dirname(filePath), LAMBDA cacheKey :
        IF Has(cache, cacheKey)
        THEN [result |-> cache[cacheKey], cache |-> cache, execs |-> 0]
        ELSE Bind(execSyncGit(cacheKey), LAMBDA r :
                IF r.ok
                THEN [result |-> r.stdout, cache |-> Put(cache, cacheKey, r.stdout), execs |-> 1]
                ELSE [result |-> WorkspaceRoot,
                      cache |-> Put(cache, cacheKey, WorkspaceRoot), execs |-> 1]))

\* the root findGitRoot returns: gitRootCache holds what the first call for the
\* directory computed, and git's answer for a directory does not change
findGitRoot(filePath) ==
    IF IsPrefix(GitRepo, dirname(filePath)) THEN GitRepo ELSE WorkspaceRoot

isDirectory(filePath) == Stat(filePath) = "dir"
fileExists(filePath) == Stat(filePath) = "file"

resolveReference(basePath, reference) ==
    IF isFluxKustomizationFile(basePath)
    THEN LET gitRoot == findGitRoot(basePath) IN
         IF isAbsolute(reference) THEN reference
         ELSE LET cleanReference ==
                      IF Len(reference) >= 2 /\ reference[1] = "."
                      THEN Tail(reference) ELSE reference
              IN resolve(gitRoot, cleanReference)
    ELSE resolve(dirname(basePath), reference)

(***************************************************************************)
(* KustomizeParser: parsing.  An operation that can throw returns          *)
(* [threw, ...]; refs are the resolved references in push order.           *)
(***************************************************************************)
\* one patch of processPatchReferences: no directory expansion, no try/catch;
\* resolveReference throws on a path that is not a string
PatchReference(filePath, acc, patch) ==
    Bind(IF IsString(patch) THEN patch
         ELSE IF IsObject(patch) /\ Truthy(Get(patch[2], "path")) THEN Get(patch[2], "path")
         ELSE JUndef,
         LAMBDA patchPath :
            IF acc.threw \/ ~Truthy(patchPath) THEN acc
            ELSE IF ~IsString(patchPath) THEN [threw |-> TRUE, refs |-> << >>]
            ELSE Bind(resolveReference(filePath, patchPath[2]), LAMBDA resolvedPath :
                    IF fileExists(resolvedPath)
                    THEN [acc EXCEPT !.refs = Append(@, resolvedPath)]
                    ELSE acc))

processPatchReferences(filePath, patches) ==
    Fold(LAMBDA acc, patch : PatchReference(filePath, acc, patch),
         [threw |-> FALSE, refs |-> << >>], patches)

\* the references of spec.path: a directory stands for the kustomization file in it
FluxSpecPathRefs(filePath, spec) ==
    Bind(Get(spec, "path"), LAMBDA specPath :
        IF Truthy(specPath) /\ IsString(specPath)
        THEN Bind(resolveReference(filePath, specPath[2]), LAMBDA resolvedPath :
                IF isDirectory(resolvedPath)
                THEN IF fileExists(join(resolvedPath, kustomizationYaml))
                     THEN << join(resolvedPath, kustomizationYaml) >>
                     ELSE IF fileExists(join(resolvedPath, kustomizationYml))
                          THEN << join(resolvedPath, kustomizationYml) >>
                          ELSE << >>
                ELSE IF fileExists(resolvedPath) THEN << resolvedPath >>
                ELSE << >>)
        ELSE << >>)

EmptyKustomization(filePath) ==
    [filePath |-> filePath, resources |-> << >>, bases |-> << >>, patches |-> << >>,
     patchesStrategicMerge |-> << >>, patchesJson6902 |-> << >>, components |-> << >>,
     configurations |-> << >>, crds |-> << >>, generators |-> << >>, transformers |-> << >>]

\* null when the document has no spec; threw when a patch path is not a string
parseFluxKustomization(filePath, parsed) ==
    Bind(Get(Fields(parsed), "spec"), LAMBDA specV :
        IF ~Truthy(specV)
        THEN [null |-> TRUE, threw |-> FALSE,
              kustomization |-> EmptyKustomization(filePath),
              resolvedReferences |-> << >>]
        ELSE Bind(<< Fields(specV),
                     processPatchReferences(filePath,
                         ArrayOrEmpty(Get(Fields(specV), "patches"))),
                     processPatchReferences(filePath,
                         ArrayOrEmpty(Get(Fields(specV), "patchesStrategicMerge"))),
                     processPatchReferences(filePath,
                         ArrayOrEmpty(Get(Fields(specV), "patchesJson6902"))) >>,
                  LAMBDA x :
                     [null |-> FALSE,
                      threw |-> x[2].threw \/ x[3].threw \/ x[4].threw,
                      kustomization |->
                          [EmptyKustomization(filePath) EXCEPT
                              !.patches = ArrayOrEmpty(Get(x[1], "patches")),
                              !.patchesStrategicMerge =
                                  ArrayOrEmpty(Get(x[1], "patchesStrategicMerge")),
                              !.patchesJson6902 = ArrayOrEmpty(Get(x[1], "patchesJson6902")),
                              !.components = ArrayOrEmpty(Get(x[1], "components"))],
                      resolvedReferences |->
                          FluxSpecPathRefs(filePath, x[1]) \o x[2].refs \o x[3].refs
                              \o x[4].refs]))

parseStandardKustomization(filePath, parsed) ==
    Bind(Fields(parsed), LAMBDA f :
        [filePath |-> filePath,
         resources |-> ArrayOrEmpty(Get(f, "resources")),
         bases |-> ArrayOrEmpty(Get(f, "bases")),
         patches |-> ArrayOrEmpty(Get(f, "patches")),
         patchesStrategicMerge |-> ArrayOrEmpty(Get(f, "patchesStrategicMerge")),
         patchesJson6902 |-> ArrayOrEmpty(Get(f, "patchesJson6902")),
         components |-> ArrayOrEmpty(Get(f, "components")),
         configurations |-> ArrayOrEmpty(Get(f, "configurations")),
         crds |-> ArrayOrEmpty(Get(f, "crds")),
         generators |-> ArrayOrEmpty(Get(f, "generators")),
         transformers |-> ArrayOrEmpty(Get(f, "transformers"))])

\* parseFluxKustomization of every Flux document of the file, in order
FluxResults(filePath) ==
    Bind(getFluxKustomizationDocuments(ReadFile(filePath)), LAMBDA fluxDocs :
        [i \in 1..Len(fluxDocs) |-> parseFluxKustomization(filePath, fluxDocs[i])])

\* the KustomizationFile of every kustomization document of the file: the Flux
\* documents first, then the standard ones; [] when anything throws
parseKustomizationFile(filePath) ==
    IF ~CanRead(filePath) THEN << >>
    ELSE Bind(<< FluxResults(filePath),
                 getStandardKustomizationDocuments(ReadFile(filePath)) >>,
              LAMBDA x :
                 IF \E i \in 1..Len(x[1]) : x[1][i].threw THEN << >>
                 ELSE Bind(SelectSeq(x[1], LAMBDA r : ~r.null), LAMBDA results :
                          [i \in 1..Len(results) |-> results[i].kustomization])
                      \o [i \in 1..Len(x[2]) |-> parseStandardKustomization(filePath, x[2][i])])

\* the resolved references of all Flux documents of the file; [] when one throws
getFluxResolvedReferences(filePath) ==
    IF ~CanRead(filePath) THEN << >>
    ELSE Bind(FluxResults(filePath), LAMBDA results :
            IF \E i \in 1..Len(results) : results[i].threw THEN << >>
            ELSE Concat([i \in 1..Len(results) |-> results[i].resolvedReferences]))

\* the path a patch entry gives: the string itself, or the path of an object
PatchPath(patch) ==
    IF IsString(patch) THEN patch
    ELSE IF IsObject(patch) /\ Truthy(Get(patch[2], "path")) THEN Get(patch[2], "path")
    ELSE JUndef

\* parseFluxKustomization calls resolveReference for the document: it has a
\* spec.path, or a patch entry that gives a path (one that makes it throw
\* has called findGitRoot before)
ResolvesReference(parsed) ==
    LET spec == Fields(Get(Fields(parsed), "spec")) IN
    /\ Truthy(Get(Fields(parsed), "spec"))
    /\ \/ Truthy(Get(spec, "path")) /\ IsString(Get(spec, "path"))
       \/ \E f \in { "patches", "patchesStrategicMerge", "patchesJson6902" } :
             \E patch \in Range(ArrayOrEmpty(Get(spec, f))) : Truthy(PatchPath(patch))

\* processing filePath calls findGitRoot(filePath): resolveReference does for
\* a Flux Kustomization file only
GitRootCalled(filePath) ==
    /\ CanRead(filePath)
    /\ \E d \in Range(getFluxKustomizationDocuments(ReadFile(filePath))) : ResolvesReference(d)

\* gitRootCache after filePath was processed
AfterProcessing(cache, filePath) ==
    IF GitRootCalled(filePath) THEN findGitRootCall(cache, filePath).cache ELSE cache

(***************************************************************************)
(* KustomizeParser.buildReferenceMap: the body of its loop                 *)
(***************************************************************************)
\* a directory stands for its kustomization.yaml, else its kustomization.yml
ExpandDirectory(p) ==
    Bind(p, LAMBDA resolvedPath :
        IF isDirectory(resolvedPath)
        THEN IF fileExists(join(resolvedPath, kustomizationYaml))
             THEN join(resolvedPath, kustomizationYaml)
             ELSE IF fileExists(join(resolvedPath, kustomizationYml))
                  THEN join(resolvedPath, kustomizationYml)
                  ELSE resolvedPath
        ELSE resolvedPath)

\* addReferences without its object branch: only string entries are resolved
AddReferenceStringsOnly(filePath, refPath) ==
    IF ~IsString(refPath) THEN << >>
    ELSE Bind(ExpandDirectory(resolveReference(filePath, refPath[2])), LAMBDA resolvedPath :
            IF fileExists(resolvedPath) THEN << resolvedPath >> ELSE << >>)

\* addReferences pushing what it resolved without asking whether it exists
AddReferenceUnchecked(filePath, refPath) ==
    Bind(IF IsString(refPath) THEN refPath
         ELSE IF IsObject(refPath) /\ Truthy(Get(refPath[2], "path")) THEN Get(refPath[2], "path")
         ELSE JUndef,
         LAMBDA raw :
            IF ~IsString(raw) THEN << >>
            ELSE << ExpandDirectory(resolveReference(filePath, raw[2])) >>)

\* one entry of addReferences: a string or an object with a path; anything else
\* is skipped, and so is a path that is not a string (path.resolve throws, caught)
AddReference(filePath, refPath) ==
    Bind(IF IsString(refPath) THEN refPath
         ELSE IF IsObject(refPath) /\ Truthy(Get(refPath[2], "path")) THEN Get(refPath[2], "path")
         ELSE JUndef,
         LAMBDA raw :
            IF ~IsString(raw) THEN << >>
            ELSE Bind(ExpandDirectory(resolveReference(filePath, raw[2])), LAMBDA resolvedPath :
                    IF fileExists(resolvedPath) THEN << resolvedPath >> ELSE << >>))

addReferences(filePath, paths) ==
    Fold(LAMBDA acc, refPath : acc \o AddReference(filePath, refPath), << >>, paths)

\* kustomization.patchesJson6902.forEach(patch => if (patch.path) ...): reading
\* .path of a null entry throws, outside every try
Json6902Reference(filePath, acc, patch) ==
    IF acc.threw THEN acc
    ELSE IF patch[1] \in {"null", "undef"} THEN [threw |-> TRUE, refs |-> << >>]
    ELSE IF IsObject(patch) /\ Truthy(Get(patch[2], "path"))
         THEN [acc EXCEPT !.refs = @ \o addReferences(filePath, << Get(patch[2], "path") >>)]
         ELSE acc

addJson6902(filePath, patches) ==
    Fold(LAMBDA acc, patch : Json6902Reference(filePath, acc, patch),
         [threw |-> FALSE, refs |-> << >>], patches)

\* the references of one standard document, in field order
StandardDocRefs(filePath, k) ==
    Bind(addJson6902(filePath, k.patchesJson6902), LAMBDA j :
        [threw |-> j.threw,
         refs |-> addReferences(filePath, k.resources)
                  \o addReferences(filePath, k.bases)
                  \o addReferences(filePath, k.components)
                  \o addReferences(filePath, k.patches)
                  \o addReferences(filePath, k.patchesStrategicMerge)
                  \o addReferences(filePath, k.configurations)
                  \o addReferences(filePath, k.crds)
                  \o j.refs])

\* what one iteration of the loop computes for filePath:
\*   skip  - parseKustomizationFile gave [] (continue)
\*   threw - the iteration throws, which ends buildReferenceMap
ProcessFile(filePath) ==
    Bind(parseKustomizationFile(filePath), LAMBDA kustomizations :
        IF Len(kustomizations) = 0
        THEN [skip |-> TRUE, threw |-> FALSE, isFlux |-> FALSE, refs |-> << >>]
        ELSE IF isFluxKustomizationFile(filePath)
        THEN [skip |-> FALSE, threw |-> FALSE, isFlux |-> TRUE,
              refs |-> getFluxResolvedReferences(filePath)]
        ELSE Bind([i \in 1..Len(kustomizations) |->
                      StandardDocRefs(filePath, kustomizations[i])],
                  LAMBDA docs :
                     [skip |-> FALSE,
                      threw |-> \E i \in 1..Len(docs) : docs[i].threw,
                      isFlux |-> FALSE,
                      refs |-> Concat([i \in 1..Len(docs) |-> docs[i].refs])]))

(***************************************************************************)
(* The reference map: fileReferences maps a file to the array of its       *)
(* resolved references, fileBackReferences a normalized target to the      *)
(* array of {path, type} of its referrers.                                 *)
(***************************************************************************)

\* one step of references.forEach(...) of buildReferenceMap: the back-reference
\* is pushed unless the bucket already holds one of filePath
\* the push of lines 420-427 without the check of existingRef
AddBackReferenceAlways(back, filePath, refType, resolvedPath) ==
    Bind(normalize(resolvedPath), LAMBDA normalizedPath :
        Bind(Lookup(back, normalizedPath), LAMBDA backRefs :
            Put(back, normalizedPath,
                Append(backRefs, [path |-> filePath, type |-> refType]))))

AddBackReference(back, filePath, refType, resolvedPath) ==
    Bind(normalize(resolvedPath), LAMBDA normalizedPath :
        Bind(Lookup(back, normalizedPath), LAMBDA backRefs :
            IF \E i \in 1..Len(backRefs) : backRefs[i].path = filePath
            THEN Put(back, normalizedPath, backRefs)
            ELSE Put(back, normalizedPath,
                     Append(backRefs, [path |-> filePath, type |-> refType]))))

AddBackReferences(back, filePath, refType, references) ==
    Fold(LAMBDA b, resolvedPath : AddBackReference(b, filePath, refType, resolvedPath),
         back, references)

\* one iteration of the for loop of buildReferenceMap on the maps m; a throwing
\* iteration ends the loop and leaves what was stored before it
BuildStep(m, filePath) ==
    IF m.threw THEN m
    ELSE Bind(ProcessFile(filePath), LAMBDA r :
            IF r.skip THEN m
            ELSE IF r.threw THEN [m EXCEPT !.threw = TRUE]
            ELSE [m EXCEPT !.fileReferences = Put(@, filePath, r.refs),
                           !.fileBackReferences =
                               AddBackReferences(@, filePath,
                                   IF r.isFlux THEN "flux" ELSE "k8s", r.refs)])

BuildLoop(m, kustomizationFiles) == Fold(BuildStep, m, kustomizationFiles)

\* the files the loop processes: all of them up to the first that throws
ProcessedFiles(kustomizationFiles) ==
    SubSeq(kustomizationFiles, 1,
           IF \E i \in 1..Len(kustomizationFiles) : ProcessFile(kustomizationFiles[i]).threw
           THEN CHOOSE i \in 1..Len(kustomizationFiles) :
                   /\ ProcessFile(kustomizationFiles[i]).threw
                   /\ \A j \in 1..(i - 1) : ~ProcessFile(kustomizationFiles[j]).threw
           ELSE Len(kustomizationFiles))

(***************************************************************************)
(* KustomizeFileWatcher: its constants, in milliseconds and events.  Time  *)
(* advances in steps of Quantum.                                           *)
(***************************************************************************)
debounceDelay == 500
changeRateWindow == 1000
massChangeThreshold == 50

Quantum == debounceDelay \div 2

(***************************************************************************)
(* KustomizeParser.findKustomizationFiles and buildReferenceMap.           *)
(* buildReferenceMap replaces the maps, then awaits two globs; the loop    *)
(* runs in the step in which the second glob resolves.  glob's order is    *)
(* the directory order, which nothing fixes.                               *)
(***************************************************************************)
Orders(S) == { o \in [1..Cardinality(S) -> S] : \A i, j \in 1..Cardinality(S) :
                                                   o[i] = o[j] => i = j }

InWorkspace(p) == IsPrefix(WorkspaceRoot, p)
Basename(p) == p[Len(p)]
IsKustomizationName(p) == Basename(p) \in { kustomizationYaml, kustomizationYml }

\* glob('**/kustomization.{yaml,yml}')
GlobKustomization ==
    { p \in FilePaths : files[p].exists /\ InWorkspace(p) /\ IsKustomizationName(p) }

\* glob('**/*.{yaml,yml}') ignoring '**/kustomization.{yaml,yml}'
GlobOtherYaml ==
    { p \in FilePaths : files[p].exists /\ InWorkspace(p) /\ ~IsKustomizationName(p) }

\* this.referenceMap = { new Map, new Map }; await this.findKustomizationFiles()
BuildStart(caller) ==
    /\ fileReferences' = EmptyMap
    /\ fileBackReferences' = EmptyMap
    /\ builds' = Append(builds, [pc |-> "glob1", kustomizationFiles |-> << >>,
                                 caller |-> caller])

\* the first glob of findKustomizationFiles resolves
BuildGlob1(i) ==
    /\ i \in 1..Len(builds)
    /\ builds[i].pc = "glob1"
    /\ \E o \in Orders(GlobKustomization) :
          builds' = [builds EXCEPT ![i].pc = "glob2", ![i].kustomizationFiles = o]
    /\ UNCHANGED << fsVars, indexVars, cacheVars, watcherVars >>

\* initialize(): the watchers and the cleanup interval are set up once the
\* first buildReferenceMap has returned; they never are when it throws
AfterBuild(caller, threw) ==
    IF caller = "initialize"
    THEN /\ watching' = IF threw THEN "failed" ELSE "on"
         /\ cleanupLeft' = IF threw THEN cleanupLeft ELSE changeRateWindow
         /\ UNCHANGED << scanTimeout, recentChangeEvents >>
    ELSE UNCHANGED watcherVars

\* the second glob resolves: the Flux files are picked by content, and the
\* loop of buildReferenceMap fills whatever this.referenceMap is by now
BuildGlob2(i) ==
    /\ i \in 1..Len(builds)
    /\ builds[i].pc = "glob2"
    /\ \E o \in Orders(GlobOtherYaml) :
          LET fluxKustomizations == SelectSeq(o, isFluxKustomizationFile)
              r == BuildLoop([fileReferences |-> fileReferences,
                              fileBackReferences |-> fileBackReferences,
                              threw |-> FALSE],
                             builds[i].kustomizationFiles \o fluxKustomizations)
          IN /\ fileReferences' = r.fileReferences
             /\ fileBackReferences' = r.fileBackReferences
             /\ gitRootCache' =
                   Fold(AfterProcessing, gitRootCache,
                        ProcessedFiles(builds[i].kustomizationFiles \o fluxKustomizations))
             /\ AfterBuild(builds[i].caller, r.threw)
    /\ builds' = [j \in 1..(Len(builds) - 1) |-> IF j < i THEN builds[j] ELSE builds[j + 1]]
    /\ UNCHANGED << fsVars, fileMetadata, fsCacheVars >>

\* KustomizeFileWatcher.initialize up to its first await
Initialize ==
    /\ watching = "new"
    /\ BuildStart("initialize")
    /\ watching' = "init"
    /\ UNCHANGED << fsVars, fileMetadata, cacheVars, scanTimeout, recentChangeEvents,
                    cleanupLeft >>

(***************************************************************************)
(* The incremental updater, parser.updateFileReferencesIncremental and     *)
(* parser.clearCaches.  The watcher calls them; they are modelled on the   *)
(* maps m = [fileReferences, fileBackReferences, fileMetadata].            *)
(***************************************************************************)
\* remove {F} from the bucket of each old target; an emptied bucket is dropped
RetractBackReference(back, F, oldTarget) ==
    Bind(normalize(oldTarget), LAMBDA key :
        Bind(SelectSeq(Lookup(back, key), LAMBDA b : b.path # F), LAMBDA bucket :
            IF ~Has(back, key) THEN back
            ELSE IF bucket = << >> THEN Remove(back, key)
            ELSE Put(back, key, bucket)))

RetractBackReferences(back, F, oldTargets) ==
    Fold(LAMBDA b, oldTarget : RetractBackReference(b, F, oldTarget), back, oldTargets)

\* Created/Changed: no-op when the recorded mtime is the file's (unless forced
\* by the cascade); else retract, reparse, store, insert, record the metadata
UpdateChanged(m, F, forced) ==
    IF ~forced /\ Has(m.fileMetadata, F) /\ m.fileMetadata[F].mtime = files[F].mtime
    THEN m
    ELSE Bind(<< RetractBackReferences(m.fileBackReferences, F, Lookup(m.fileReferences, F)),
                 ProcessFile(F) >>,
              LAMBDA x :
                 Bind(IF x[2].skip \/ x[2].threw THEN << >> ELSE x[2].refs, LAMBDA refs :
                     [fileReferences |-> Put(m.fileReferences, F, refs),
                      fileBackReferences |->
                          AddBackReferences(x[1], F,
                              IF x[2].isFlux THEN "flux" ELSE "k8s", refs),
                      fileMetadata |->
                          Put(m.fileMetadata, F,
                              [mtime |-> IF F \in FilePaths THEN files[F].mtime ELSE 0,
                               references |-> refs])]))

\* the Deleted branch without the pruning of the referrers' forward lists
UpdateDeletedNoPrune(m, D) ==
    Bind(RetractBackReferences(m.fileBackReferences, D, Lookup(m.fileReferences, D)),
         LAMBDA back :
            [fileReferences |-> Remove(m.fileReferences, D),
             fileBackReferences |-> Remove(back, D),
             fileMetadata |-> Remove(m.fileMetadata, D)])

\* Deleted: drop the file's entry, retract its back-references, prune it from
\* the forward list of every referrer, drop its bucket and its metadata
UpdateDeleted(m, D) ==
    Bind(RetractBackReferences(m.fileBackReferences, D, Lookup(m.fileReferences, D)),
         LAMBDA back :
            Bind(<< Remove(m.fileReferences, D),
                    { b.path : b \in Range(Lookup(back, D)) } >>,
                 LAMBDA x :
                    [fileReferences |->
                         [R \in DOMAIN x[1] |->
                             IF R \in x[2]
                             THEN SelectSeq(x[1][R], LAMBDA T : normalize(T) # D)
                             ELSE x[1][R]],
                     fileBackReferences |-> Remove(back, D),
                     fileMetadata |-> Remove(m.fileMetadata, D)]))

\* an update without the cascade
UpdateCascadeNone(m, F) == m

\* Cascade: every current back-referrer of F is recomputed, one level deep
UpdateCascade(m, F) ==
    Bind(Lookup(m.fileBackReferences, F), LAMBDA bucket :
        Fold(LAMBDA mm, b : UpdateChanged(mm, b.path, TRUE), m, bucket))

\* the file F was processed by the last update: its mtime was not the recorded one
Unchanged(m, F) == Has(m.fileMetadata, F) /\ m.fileMetadata[F].mtime = files[F].mtime

\* the files an update of the existing file filePath reprocesses: the file,
\* when its mtime is not the recorded one, and then its back-referrers
UpdatedFiles(filePath) ==
    IF Has(fileMetadata, filePath) /\ fileMetadata[filePath].mtime = files[filePath].mtime
    THEN << >>
    ELSE << filePath >>
         \o Bind(UpdateChanged([fileReferences |-> fileReferences,
                                fileBackReferences |-> fileBackReferences,
                                fileMetadata |-> fileMetadata], filePath, FALSE),
                 LAMBDA mm :
                    Bind(Lookup(mm.fileBackReferences, filePath), LAMBDA bucket :
                        [i \in 1..Len(bucket) |-> bucket[i].path]))

updateFileReferencesIncremental(m, filePath) ==
    IF ~fileExists(filePath) THEN UpdateDeleted(m, filePath)
    ELSE IF Unchanged(m, filePath) THEN m
    ELSE Bind(UpdateChanged(m, filePath, FALSE), LAMBDA mm : UpdateCascade(mm, filePath))

(***************************************************************************)
(* The filesystem cache of the parser: fileExistsCache maps a normalized   *)
(* path to {exists, mtime}, fileStatCache to {mtime, isDirectory, isFile}. *)
(* A read returns [result, cache, stats]: the answer, the cache after it,  *)
(* and the number of filesystem stats it made.                             *)
(***************************************************************************)
MtimeOf(p) == IF p \in FilePaths THEN files[p].mtime ELSE 1

ExistsEntry(p) ==
    IF Stat(p) = "none" THEN [exists |-> FALSE, mtime |-> 0]
    ELSE [exists |-> TRUE, mtime |-> MtimeOf(p)]

StatEntry(p) ==
    IF Stat(p) = "none" THEN [mtime |-> 0, isDirectory |-> FALSE, isFile |-> FALSE]
    ELSE [mtime |-> MtimeOf(p), isDirectory |-> Stat(p) = "dir", isFile |-> Stat(p) = "file"]

\* exists() that stats on every call, never trusting an entry
cachedFileExistsRevalidating(cache, path) ==
    Bind(normalize(path), LAMBDA key :
        [result |-> ExistsEntry(key).exists,
         cache |-> Put(cache, key, ExistsEntry(key)),
         stats |-> 1])

\* exists(): a hit is answered from the entry; a miss stats once and caches
cachedFileExists(cache, path) ==
    Bind(normalize(path), LAMBDA key :
        IF Has(cache, key)
        THEN [result |-> cache[key].exists, cache |-> cache, stats |-> 0]
        ELSE [result |-> ExistsEntry(key).exists,
              cache |-> Put(cache, key, ExistsEntry(key)),
              stats |-> 1])

\* isDirectory(): the same on the stat cache
cachedIsDirectory(cache, path) ==
    Bind(normalize(path), LAMBDA key :
        IF Has(cache, key)
        THEN [result |-> cache[key].isDirectory, cache |-> cache, stats |-> 0]
        ELSE [result |-> StatEntry(key).isDirectory,
              cache |-> Put(cache, key, StatEntry(key)),
              stats |-> 1])

\* invalidate(path): both entries of the normalized path are dropped
invalidateFileCache(path) ==
    /\ fileExistsCache' = Remove(fileExistsCache, normalize(path))
    /\ fileStatCache' = Remove(fileStatCache, normalize(path))
    /\ UNCHANGED gitRootCache

\* validateAndRefresh(path): invalidate, then stat again at once
validateAndRefresh(path) ==
    /\ fileExistsCache' = Put(fileExistsCache, normalize(path), ExistsEntry(normalize(path)))
    /\ fileStatCache' = Put(fileStatCache, normalize(path), StatEntry(normalize(path)))
    /\ UNCHANGED gitRootCache

\* parser.clearCaches(): every entry of both filesystem caches is dropped
clearCaches ==
    /\ fileExistsCache' = EmptyMap
    /\ fileStatCache' = EmptyMap
    /\ UNCHANGED gitRootCache

(***************************************************************************)
(* KustomizeFileWatcher: the handlers of the two FileSystemWatchers, the   *)
(* one debounce timer and the cleanup interval.  scanTimeout is the timer  *)
(* that is pending, with the time left until it fires.                     *)
(***************************************************************************)
NoTimeout == [kind |-> "none"]

\* debouncedIncrementalUpdate without clearTimeout: a pending timer keeps its time
debouncedIncrementalUpdateNoReset(filePath) ==
    scanTimeout' = IF scanTimeout.kind = "incremental"
                   THEN [scanTimeout EXCEPT !.filePath = filePath]
                   ELSE [kind |-> "incremental", filePath |-> filePath,
                         left |-> debounceDelay]

debouncedIncrementalUpdate(filePath) ==
    scanTimeout' = [kind |-> "incremental", filePath |-> filePath, left |-> debounceDelay]

debouncedScanWorkspace ==
    scanTimeout' = [kind |-> "scan", left |-> debounceDelay]

handleFileChange(filePath) ==
    IF recentChangeEvents + 1 > massChangeThreshold
    THEN /\ clearCaches
         /\ recentChangeEvents' = 0
         /\ debouncedScanWorkspace
    ELSE /\ recentChangeEvents' = recentChangeEvents + 1
         /\ debouncedIncrementalUpdate(filePath)
         /\ UNCHANGED cacheVars

\* the frame of a handler that may call handleFileChange
HandlerFrame == UNCHANGED << files, indexVars, builds, watching, cleanupLeft >>

\* kustomizationFileWatcher.onDidCreate / onDidChange
handleKustomizationFileChange(p) ==
    /\ watching = "on"
    /\ IsKustomizationName(p)
    /\ handleFileChange(p)
    /\ HandlerFrame

\* kustomizationFileWatcher.onDidDelete
handleKustomizationFileDelete(p) ==
    /\ watching = "on"
    /\ IsKustomizationName(p)
    /\ handleFileChange(p)
    /\ HandlerFrame

\* fileName.endsWith('kustomization.yaml') || fileName.endsWith('kustomization.yml')
\* of the names of FilePaths, apps-kustomization.yaml ends so as well
EndsWithKustomization(p) ==
    Basename(p) \in { kustomizationYaml, kustomizationYml, appsKustomizationYaml }

\* allYamlFileWatcher.onDidCreate / onDidChange
handleYamlFileChange(p) ==
    /\ watching = "on"
    /\ IF ~EndsWithKustomization(p) /\ isFluxKustomizationFile(p)
       THEN handleFileChange(p)
       ELSE UNCHANGED << scanTimeout, recentChangeEvents, cacheVars >>
    /\ HandlerFrame

\* allYamlFileWatcher.onDidDelete
handleYamlFileDelete(p) ==
    /\ watching = "on"
    /\ handleFileChange(p)
    /\ HandlerFrame

\* the timer set by debouncedIncrementalUpdate fires: updateFileReferences; the
\* update of a deleted file also drops the cache entries keyed to it
FireIncrementalUpdate ==
    /\ scanTimeout.kind = "incremental"
    /\ scanTimeout.left = 0
    /\ LET m == updateFileReferencesIncremental(
                    [fileReferences |-> fileReferences,
                     fileBackReferences |-> fileBackReferences,
                     fileMetadata |-> fileMetadata], scanTimeout.filePath)
       IN /\ fileReferences' = m.fileReferences
          /\ fileBackReferences' = m.fileBackReferences
          /\ fileMetadata' = m.fileMetadata
    /\ IF fileExists(scanTimeout.filePath)
       THEN /\ UNCHANGED fsCacheVars
            /\ gitRootCache' =
                  Fold(AfterProcessing, gitRootCache, UpdatedFiles(scanTimeout.filePath))
       ELSE invalidateFileCache(scanTimeout.filePath)
    /\ scanTimeout' = NoTimeout
    /\ UNCHANGED << fsVars, builds, watching, recentChangeEvents, cleanupLeft >>

\* the timer set by debouncedScanWorkspace fires: updateReferences
FireScanWorkspace ==
    /\ scanTimeout.kind = "scan"
    /\ scanTimeout.left = 0
    /\ BuildStart("updateReferences")
    /\ scanTimeout' = NoTimeout
    /\ UNCHANGED << fsVars, fileMetadata, cacheVars, watching, recentChangeEvents,
                    cleanupLeft >>

\* the cleanup interval fires
CleanupInterval ==
    /\ watching = "on"
    /\ cleanupLeft = 0
    /\ recentChangeEvents' = 0
    /\ cleanupLeft' = changeRateWindow
    /\ UNCHANGED << fsVars, indexVars, cacheVars, builds, watching, scanTimeout >>

\* Quantum milliseconds pass; a timer that is due fires first
Tick ==
    /\ watching = "on"
    /\ cleanupLeft > 0
    /\ scanTimeout.kind # "none" => scanTimeout.left > 0
    /\ cleanupLeft' = Max(0, cleanupLeft - Quantum)
    /\ scanTimeout' = IF scanTimeout.kind = "none" THEN scanTimeout
                      ELSE [scanTimeout EXCEPT !.left = Max(0, @ - Quantum)]
    /\ UNCHANGED << fsVars, indexVars, cacheVars, builds, watching, recentChangeEvents >>

(***************************************************************************)
(* Documents and trees the specifications start from                       *)
(***************************************************************************)
StdDoc(fields) ==
    JObj([apiVersion |-> JStr(<< "kustomize.config.k8s.io", "v1beta1" >>),
          kind |-> Kustomization] @@ fields)

FluxDoc(spec) ==
    JObj([apiVersion |-> JStr(<< "kustomize.toolkit.fluxcd.io", "v1" >>),
          kind |-> Kustomization,
          spec |-> JObj(spec)])

\* a Kubernetes manifest that is no kustomization
PlainDoc == JObj([apiVersion |-> JStr(<< "apps", "v1" >>), kind |-> JStr(<< "Deployment" >>)])

NoFiles == [p \in FilePaths |-> Absent]

\* the tree t with the files of the record w written
With(t, w) == [p \in FilePaths |-> IF p \in DOMAIN w THEN File(w[p]) ELSE t[p]]

\* the state after construction, on the tree t
Constructed(t) ==
    /\ files = t
    /\ fileReferences = EmptyMap
    /\ fileBackReferences = EmptyMap
    /\ fileMetadata = EmptyMap
    /\ fileExistsCache = EmptyMap
    /\ fileStatCache = EmptyMap
    /\ gitRootCache = EmptyMap
    /\ builds = << >>
    /\ watching = "new"
    /\ scanTimeout = NoTimeout
    /\ recentChangeEvents = 0
    /\ cleanupLeft = 0
    /\ pendingEvents = {}

(***************************************************************************)
(* SpecResolve: resolveReference applied to every reference string of up   *)
(* to MaxRefLen segments, from a Flux file and from a standard file.       *)
(***************************************************************************)
MaxRefLen == 3
RefSegs == { "", ".", "..", "infra", "base" }
RefStrings == UNION { [1..n -> RefSegs] : n \in 1..MaxRefLen }

ResolveTree ==
    With(NoFiles,
         PathApp :> << FluxDoc([path |-> JStr(<< ".", "base" >>)]) >>
         @@ PathOverlay :> << StdDoc([bases |-> JArr(<< JStr(<< "..", "..", "base" >>) >>)]) >>
         @@ PathBase :> << StdDoc([resources |-> JArr(<< JStr(<< "deployment.yaml" >>) >>)]) >>
         @@ PathDeployment :> << PlainDoc >>)

InitResolve ==
    /\ Constructed(ResolveTree)
    /\ obs = [call |-> "none"]

CallResolveReference(basePath, reference) ==
    /\ obs' = [call |-> "resolveReference", basePath |-> basePath,
               reference |-> reference,
               result |-> resolveReference(basePath, reference)]
    /\ gitRootCache' = IF isFluxKustomizationFile(basePath)
                       THEN findGitRootCall(gitRootCache, basePath).cache
                       ELSE gitRootCache
    /\ UNCHANGED << fsVars, indexVars, fsCacheVars, watcherVars, builds >>

NextResolve ==
    \E basePath \in { PathApp, PathOverlay }, reference \in RefStrings :
        CallResolveReference(basePath, reference)

SpecResolve == InitResolve /\ [][NextResolve]_vars

\* path.join(root, s): the two strings joined by '/', then normalized
ClaimJoin(root, s) == normalize(root \o s)

\* C8 as claimed.  Flux: an absolute reference is returned unchanged, a relative
\* one is the repository root joined with the reference less one leading './'
\* (never the file's own directory); Standard: resolved against the directory of
\* the referencing file.
ClaimResolved(basePath, reference) ==
    IF isFluxKustomizationFile(basePath)
    THEN IF isAbsolute(reference) THEN reference
         ELSE ClaimJoin(GitRepo, IF Len(reference) >= 2 /\ reference[1] = "."
                                 THEN Tail(reference) ELSE reference)
    ELSE resolve(dirname(basePath), reference)

\* C8: every resolveReference result is the path the claimed regime gives
C8_PathResolutionRegime ==
    obs.call = "resolveReference" => obs.result = ClaimResolved(obs.basePath, obs.reference)

(***************************************************************************)
(* SpecBuild: initialize() (the full rebuild) on trees drawn from two      *)
(* families.                                                               *)
(*   DirTrees:   one document with one reference to the directory          *)
(*               /repo/base, in every field of either document kind, with  *)
(*               every combination of kustomization.yaml/.yml in it.       *)
(*   PatchTrees: one document whose patches array is any sequence of up to *)
(*               MaxPatches entries of PatchEntries.                       *)
(***************************************************************************)
MaxPatches == 3

RefToBaseStd == JStr(<< "..", "..", "base" >>)
RefToBaseFlux == JStr(<< ".", "base" >>)

StdArrayFields == { "resources", "bases", "components", "patches", "patchesStrategicMerge",
                    "configurations", "crds", "generators", "transformers" }
FluxArrayFields == { "patches", "patchesStrategicMerge", "components" }

DirDocsStd ==
    { StdDoc(f :> JArr(<< RefToBaseStd >>)) : f \in StdArrayFields }
    \cup { StdDoc(f :> JArr(<< JObj([path |-> RefToBaseStd]) >>)) :
              f \in { "patches", "patchesJson6902" } }

DirDocsFlux ==
    { FluxDoc(f :> JArr(<< RefToBaseFlux >>)) : f \in FluxArrayFields }
    \cup { FluxDoc(f :> JArr(<< JObj([path |-> RefToBaseFlux]) >>)) :
              f \in { "patches", "patchesJson6902" } }
    \cup { FluxDoc([path |-> RefToBaseFlux]) }

BaseDirTrees ==
    { [p \in FilePaths |->
          IF p = PathDeployment THEN File(<< PlainDoc >>)
          ELSE IF p = PathBase /\ yaml
               THEN File(<< StdDoc([resources |-> JArr(<< JStr(<< "deployment.yaml" >>) >>)]) >>)
          ELSE IF p = PathBaseYml /\ yml
               THEN File(<< StdDoc([resources |-> JArr(<< JStr(<< "deployment.yaml" >>) >>)]) >>)
          ELSE Absent] : yaml \in BOOLEAN, yml \in BOOLEAN }

DirTrees ==
    { With(t, PathOverlay :> << d >>) : t \in BaseDirTrees, d \in DirDocsStd }
    \cup { With(t, PathApp :> << d >>) : t \in BaseDirTrees, d \in DirDocsFlux }

RefP1 == JStr(<< "p1.yaml" >>)
RefP2 == JStr(<< "p2.yaml" >>)
\* the absolute path /repo/./p1.yaml
RefP1Absolute == JStr(<< "", "repo", ".", "p1.yaml" >>)
InlinePatch == JObj([patch |-> JStr(<< "- op: replace" >>)])
PatchEntries ==
    { RefP1,
      JObj([path |-> RefP2, target |-> JObj([kind |-> JStr(<< "Deployment" >>)])]),
      InlinePatch,
      JNull,
      JStr(<< "" >>),
      JObj([path |-> JStr(<< "" >>)]),
      RefP1Absolute }
PatchArrays == UNION { [1..n -> PatchEntries] : n \in 0..MaxPatches }

PatchTrees ==
    LET t == With(NoFiles, PathP1 :> << PlainDoc >> @@ PathP2 :> << PlainDoc >>) IN
    { With(t, PathRootK :> << StdDoc([patches |-> JArr(a)]) >>) : a \in PatchArrays }
    \cup { With(t, PathApp :> << FluxDoc([patches |-> JArr(a)]) >>) : a \in PatchArrays }

InitBuild ==
    /\ \E t \in DirTrees \cup PatchTrees : Constructed(t)
    /\ obs = [call |-> "none"]

NextBuild ==
    \/ Initialize /\ UNCHANGED obs
    \/ \E i \in 1..Len(builds) : BuildGlob1(i) /\ UNCHANGED obs
    \/ \E i \in 1..Len(builds) : BuildGlob2(i) /\ UNCHANGED obs

SpecBuild == InitBuild /\ [][NextBuild]_vars

\* buildReferenceMap has returned to initialize()
BuildReturned == watching \in { "on", "failed" }

\* the first document of the file F
FirstDoc(F) == files[F].text[1]

\* the record holding the reference fields of a document: spec for a Flux one
RefFields(d) == IF isFluxKustomizationDocument(d) THEN Fields(Get(Fields(d), "spec"))
                ELSE Fields(d)

\* T is recorded as a target of F: a forward reference and its back-reference
Recorded(F, T) ==
    /\ Has(fileReferences, F)
    /\ T \in Range(fileReferences[F])
    /\ \E b \in Range(Lookup(fileBackReferences, T)) :
          /\ b.path = F
          /\ b.type = IF isFluxKustomizationFile(F) THEN "flux" ELSE "k8s"

\* the path strings a reference field holds: string entries and path members
EntryStrings(x) ==
    IF IsString(x) THEN { x[2] }
    ELSE IF IsArray(x)
         THEN { e[2] : e \in { y \in Range(x[2]) : IsString(y) } }
              \cup { Get(e[2], "path")[2] :
                        e \in { y \in Range(x[2]) :
                                   IsObject(y) /\ IsString(Get(y[2], "path")) } }
         ELSE {}

ClaimReferenceFields == StdArrayFields \cup { "patchesJson6902", "path" }

\* every path string of every reference field of the document d
ClaimReferenceStrings(d) ==
    UNION { EntryStrings(Get(RefFields(d), f)) : f \in ClaimReferenceFields }

\* C9: after a full rebuild, a reference of a kustomization document that
\* resolves to an existing directory is recorded as kustomization.yaml inside
\* it when that exists, else as kustomization.yml when that exists
C9_DirectoryToFileExpansion ==
    BuildReturned =>
        \A F \in { PathOverlay, PathApp, PathRootK } :
            files[F].exists =>
                \A ref \in ClaimReferenceStrings(FirstDoc(F)) :
                    LET D == resolveReference(F, ref)
                        yaml == join(D, kustomizationYaml)
                        yml == join(D, kustomizationYml)
                    IN isDirectory(D) =>
                          /\ fileExists(yaml) => Recorded(F, yaml)
                          /\ (~fileExists(yaml) /\ fileExists(yml)) => Recorded(F, yml)

\* the kind recorded for the referrer F
KindOf(F) == IF isFluxKustomizationFile(F) THEN "flux" ELSE "k8s"

\* the two maps are exact inverses
Symmetric(refs, back) ==
    /\ \A F \in DOMAIN refs : \A T \in Range(refs[F]) :
          \E b \in Range(Lookup(back, T)) : b.path = F /\ b.type = KindOf(F)
    /\ \A T \in DOMAIN back : \A b \in Range(back[T]) :
          T \in Range(Lookup(refs, b.path))

\* C1: after a full rebuild, every forward reference F -> T has its entry
\* {F, kind(F)} in fileBackReferences[T], and every back-reference entry has
\* its forward reference
C1_IndexSymmetry ==
    (BuildReturned /\ builds = << >>) => Symmetric(fileReferences, fileBackReferences)

\* the patches array of the first document of F
PatchesOf(F) == ArrayOrEmpty(Get(RefFields(FirstDoc(F)), "patches"))

\* patches is the only reference field of the first document of F
OnlyPatches(F) ==
    /\ Len(files[F].text) = 1
    /\ "patches" \in DOMAIN RefFields(FirstDoc(F))
    /\ DOMAIN RefFields(FirstDoc(F)) \subseteq { "apiVersion", "kind", "patches" }

\* what a patches entry contributes as claimed: a string its path, an object
\* its (non-empty) path member, an inline patch or a null entry nothing
ClaimPatchPath(e) ==
    IF IsString(e) THEN << e >>
    ELSE IF IsObject(e) /\ IsString(Get(e[2], "path")) /\ Get(e[2], "path")[2] # << "" >>
         THEN << Get(e[2], "path") >>
         ELSE << >>

\* the references the bare path strings contributed by the entries resolve to
ClaimPatchReferences(F) ==
    LET strings == Concat([i \in 1..Len(PatchesOf(F)) |-> ClaimPatchPath(PatchesOf(F)[i])])
    IN IF isFluxKustomizationFile(F)
       THEN processPatchReferences(F, strings).refs
       ELSE addReferences(F, strings)

\* C10: a patches array resolves, without error, exactly the references of the
\* paths its string entries and its objects' path members give, in order;
\* inline patches and null entries give none and do not stop the others
C10_PatchPolymorphism ==
    \A F \in { PathOverlay, PathApp, PathRootK } :
        (BuildReturned /\ files[F].exists /\ OnlyPatches(F)) =>
            /\ watching = "on"
            /\ Has(fileReferences, F)
            /\ fileReferences[F] = ClaimPatchReferences(F)

\* "p1.yaml", {path: "p2.yaml", target}, {patch} resolved exactly p1 and p2
C10_Witness ==
    /\ watching = "on"
    /\ files[PathRootK].exists
    /\ PatchesOf(PathRootK) =
          << RefP1, JObj([path |-> RefP2, target |-> JObj([kind |-> JStr(<< "Deployment" >>)])]),
             InlinePatch >>
    /\ Has(fileReferences, PathRootK)
    /\ fileReferences[PathRootK] = << PathP1, PathP2 >>

(***************************************************************************)
(* SpecWatcher: the coordinator under change events of the watched files   *)
(* arriving at any time (MaxEvents of them, too few for the mass-change    *)
(* branch), on a tree that does not change.  obs is the                    *)
(* history of the events accepted by handleFileChange since the first one. *)
(*   events      how many                                                  *)
(*   span        time from the first to the last, capped at the window     *)
(*   sinceLast   time since the last, capped at the window                 *)
(*   first, sameFile   the first path; all events were for it              *)
(*   gapsShort   every gap was shorter than debounceDelay                  *)
(*   mass        handleFileChange took its mass-change branch              *)
(*   passes, passFile, passEarly   incremental updates run (up to 2), the  *)
(*               path of the last, one ran less than debounceDelay after   *)
(*               the last event                                            *)
(*   rebuilds, cleared   full rebuilds started (up to 2), clearCaches had  *)
(*               been called when the last one started                     *)
(*   unprocessed paths accepted and since neither updated nor rebuilt      *)
(***************************************************************************)
MaxEvents == 4

WatcherTree == ResolveTree
WatchedKustomizations == { PathOverlay, PathBase }
WatchedYaml == { PathApp }

NoEvents ==
    [events |-> 0, span |-> 0, sinceLast |-> 0, first |-> << >>, sameFile |-> TRUE,
     gapsShort |-> TRUE, mass |-> FALSE, passes |-> 0, passFile |-> << >>,
     passEarly |-> FALSE, rebuilds |-> 0, cleared |-> FALSE, unprocessed |-> {}]

Min(a, b) == IF a <= b THEN a ELSE b

InitWatcher ==
    /\ Constructed(WatcherTree)
    /\ obs = NoEvents

\* handleFileChange(p) is called, for at most limit events
Accepted(p, limit) ==
    /\ obs.events < limit
    /\ obs' = [obs EXCEPT
                  !.events = @ + 1,
                  !.span = IF obs.events = 0 THEN 0
                           ELSE Min(changeRateWindow, @ + obs.sinceLast),
                  !.sinceLast = 0,
                  !.first = IF obs.events = 0 THEN p ELSE @,
                  !.sameFile = @ /\ (obs.events = 0 \/ p = obs.first),
                  !.gapsShort = @ /\ (obs.events = 0 \/ obs.sinceLast < debounceDelay),
                  !.mass = @ \/ recentChangeEvents + 1 > massChangeThreshold,
                  !.unprocessed = @ \cup { p }]

WatcherKustomizationFileChange ==
    \E p \in WatchedKustomizations :
        /\ handleKustomizationFileChange(p)
        /\ Accepted(p, MaxEvents)
        /\ UNCHANGED pendingEvents

WatcherYamlFileChange ==
    \E p \in WatchedYaml :
        /\ handleYamlFileChange(p)
        /\ Accepted(p, MaxEvents)
        /\ UNCHANGED pendingEvents

WatcherFireIncrementalUpdate ==
    /\ FireIncrementalUpdate
    /\ obs' = [obs EXCEPT
                  !.passes = Min(2, @ + 1),
                  !.passFile = scanTimeout.filePath,
                  !.passEarly = @ \/ obs.sinceLast < debounceDelay,
                  !.unprocessed = @ \ { scanTimeout.filePath }]

WatcherFireScanWorkspace ==
    /\ FireScanWorkspace
    /\ obs' = [obs EXCEPT
                  !.rebuilds = Min(2, @ + 1),
                  !.cleared = obs.mass,
                  !.unprocessed = {}]

WatcherTick ==
    /\ Tick
    /\ obs' = [obs EXCEPT
                  !.sinceLast = IF obs.events = 0 THEN 0
                                ELSE Min(changeRateWindow, @ + Quantum)]

NextWatcher ==
    \/ Initialize /\ UNCHANGED obs
    \/ \E i \in 1..Len(builds) : BuildGlob1(i) /\ UNCHANGED obs
    \/ \E i \in 1..Len(builds) : BuildGlob2(i) /\ UNCHANGED obs
    \/ WatcherKustomizationFileChange
    \/ WatcherYamlFileChange
    \/ WatcherFireIncrementalUpdate
    \/ CleanupInterval /\ UNCHANGED obs
    \/ WatcherTick

SpecWatcher == InitWatcher /\ [][NextWatcher]_vars

\* no timer is pending and no rebuild is in flight
Quiet == watching = "on" /\ scanTimeout.kind = "none" /\ builds = << >>

\* C4: once no timer is pending, every accepted path has had its incremental
\* update or a full rebuild after its event
C4_EveryEventProcessed ==
    (watching = "on" /\ scanTimeout.kind = "none") => obs.unprocessed = {}

\* C5: a burst of events for one file, every gap shorter than debounceDelay,
\* the mass-change branch not taken: no pass while the timer is pending, one
\* pass for that file once it has fired, and none before debounceDelay has
\* passed since the last event
C5_DebounceCoalescing ==
    (obs.events >= 1 /\ obs.sameFile /\ obs.gapsShort /\ ~obs.mass) =>
        /\ ~obs.passEarly
        /\ obs.rebuilds = 0
        /\ scanTimeout.kind # "none" => obs.passes = 0
        /\ scanTimeout.kind = "none" => (obs.passes = 1 /\ obs.passFile = obs.first)

\* three or more events for one file, with gaps, gave one pass
C5_Witness ==
    /\ obs.events >= 3
    /\ obs.sameFile /\ obs.gapsShort /\ ~obs.mass
    /\ obs.span > 0
    /\ scanTimeout.kind = "none"
    /\ obs.passes = 1
    /\ obs.passFile = obs.first

(***************************************************************************)
(* SpecBurst: one burst of up to BurstEvents change events of two          *)
(* kustomization files in turn, each less than debounceDelay after the one before  *)
(* and all within changeRateWindow of the first, starting at any phase of  *)
(* the cleanup interval, then handled to the end.                          *)
(***************************************************************************)
BurstEvents == 60

InBurst ==
    obs.events = 0 \/ (/\ obs.sinceLast < debounceDelay
                       /\ obs.span + obs.sinceLast < changeRateWindow)

\* the files of the burst change in turn
BurstPath(n) == IF n % 2 = 0 THEN PathOverlay ELSE PathBase

BurstFileChange ==
    /\ InBurst
    /\ handleKustomizationFileChange(BurstPath(obs.events))
    /\ Accepted(BurstPath(obs.events), BurstEvents)
    /\ UNCHANGED pendingEvents

NextBurst ==
    \/ Initialize /\ UNCHANGED obs
    \/ \E i \in 1..Len(builds) : BuildGlob1(i) /\ UNCHANGED obs
    \/ \E i \in 1..Len(builds) : BuildGlob2(i) /\ UNCHANGED obs
    \/ BurstFileChange
    \/ WatcherFireIncrementalUpdate
    \/ WatcherFireScanWorkspace
    \/ CleanupInterval /\ UNCHANGED obs
    \/ WatcherTick

SpecBurst == InitWatcher /\ [][NextBurst]_vars

\* C3: once a burst of BurstEvents events, all within one window and each less
\* than debounceDelay after the one before, has been handled to the end, there
\* was exactly one full rebuild, no incremental update, and clearCaches came
\* before the rebuild
C3_MassChangeFallback ==
    (Quiet /\ obs.events = BurstEvents /\ obs.span < changeRateWindow /\ obs.gapsShort) =>
        (obs.rebuilds = 1 /\ obs.passes = 0 /\ obs.cleared)

(***************************************************************************)
(* SpecIndex: the index under changes of the file tree.  After             *)
(* initialize(), files are written and deleted (MaxChanges times), each    *)
(* change raises the events of the watchers whose pattern the path         *)
(* matches, the events are delivered in any order, and the timers run.     *)
(* obs holds the number of changes made and, after an incremental update,  *)
(* the path it was for, whether the file was gone, and the maps before it. *)
(***************************************************************************)
MaxChanges == 2

IndexTree ==
    With(NoFiles,
         PathApp :> << FluxDoc([path |-> JStr(<< ".", "base" >>)]) >>
         @@ PathOverlay :> << StdDoc([bases |-> JArr(<< JStr(<< "..", "..", "base" >>) >>)]) >>
         @@ PathBase :> << StdDoc([resources |-> JArr(<< JStr(<< "deployment.yaml" >>) >>)]) >>
         @@ PathDeployment :> << PlainDoc >>
         @@ PathRootK :> << StdDoc([resources |-> JArr(<< RefP1 >>)]) >>
         @@ PathP1 :> << PlainDoc >>)

\* what a file may be written with
Contents(p) ==
    IF p = PathApp THEN { IndexTree[PathApp].text, << PlainDoc >> }
    ELSE IF p \in { PathBase, PathDeployment } THEN { IndexTree[p].text }
    ELSE {}

NoUpdate == [kind |-> "none"]

InitIndex ==
    /\ Constructed(IndexTree)
    /\ obs = [changes |-> 0, last |-> NoUpdate]

\* the events a create, change or delete of p raises: one per matching watcher
Raised(p, kind) ==
    { [watcher |-> "yaml", kind |-> kind, path |-> p] }
    \cup IF IsKustomizationName(p)
         THEN { [watcher |-> "kustomization", kind |-> kind, path |-> p] }
         ELSE {}

\* a file is created or overwritten
WriteFile ==
    \E p \in FilePaths : \E text \in Contents(p) :
        /\ watching = "on"
        /\ obs.changes < MaxChanges
        /\ files' = [files EXCEPT ![p] = [exists |-> TRUE, text |-> text,
                                          mtime |-> files[p].mtime + 1]]
        /\ pendingEvents' = pendingEvents
              \cup Raised(p, IF files[p].exists THEN "change" ELSE "create")
        /\ obs' = [obs EXCEPT !.changes = @ + 1]
        /\ UNCHANGED << indexVars, cacheVars, builds, watcherVars >>

\* a file is deleted
DeleteFile ==
    \E p \in FilePaths :
        /\ watching = "on"
        /\ obs.changes < MaxChanges
        /\ Contents(p) # {}
        /\ files[p].exists
        /\ files' = [files EXCEPT ![p] = [exists |-> FALSE, text |-> << >>,
                                          mtime |-> files[p].mtime]]
        /\ pendingEvents' = pendingEvents \cup Raised(p, "delete")
        /\ obs' = [obs EXCEPT !.changes = @ + 1]
        /\ UNCHANGED << indexVars, cacheVars, builds, watcherVars >>

Delivered(e) == pendingEvents' = pendingEvents \ { e }

DeliverKustomizationFileChange ==
    \E e \in pendingEvents :
        /\ e.watcher = "kustomization" /\ e.kind \in { "create", "change" }
        /\ handleKustomizationFileChange(e.path)
        /\ Delivered(e)
        /\ UNCHANGED obs

DeliverKustomizationFileDelete ==
    \E e \in pendingEvents :
        /\ e.watcher = "kustomization" /\ e.kind = "delete"
        /\ handleKustomizationFileDelete(e.path)
        /\ Delivered(e)
        /\ UNCHANGED obs

DeliverYamlFileChange ==
    \E e \in pendingEvents :
        /\ e.watcher = "yaml" /\ e.kind \in { "create", "change" }
        /\ handleYamlFileChange(e.path)
        /\ Delivered(e)
        /\ UNCHANGED obs

DeliverYamlFileDelete ==
    \E e \in pendingEvents :
        /\ e.watcher = "yaml" /\ e.kind = "delete"
        /\ handleYamlFileDelete(e.path)
        /\ Delivered(e)
        /\ UNCHANGED obs

IndexFireIncrementalUpdate ==
    /\ FireIncrementalUpdate
    /\ obs' = [obs EXCEPT !.last =
                  [kind |-> IF fileExists(scanTimeout.filePath) THEN "changed" ELSE "deleted",
                   filePath |-> scanTimeout.filePath,
                   fileReferences |-> fileReferences,
                   fileBackReferences |-> fileBackReferences]]

NextIndex ==
    \/ Initialize /\ UNCHANGED obs
    \/ \E i \in 1..Len(builds) : BuildGlob1(i) /\ UNCHANGED obs
    \/ \E i \in 1..Len(builds) : BuildGlob2(i) /\ obs' = [obs EXCEPT !.last = NoUpdate]
    \/ WriteFile
    \/ DeleteFile
    \/ DeliverKustomizationFileChange
    \/ DeliverKustomizationFileDelete
    \/ DeliverYamlFileChange
    \/ DeliverYamlFileDelete
    \/ IndexFireIncrementalUpdate
    \/ CleanupInterval /\ UNCHANGED obs
    \/ Tick /\ UNCHANGED obs

SpecIndex == InitIndex /\ [][NextIndex]_vars

\* the maps buildReferenceMap computes from the tree as it is
FullRebuild ==
    BuildLoop([fileReferences |-> EmptyMap, fileBackReferences |-> EmptyMap, threw |-> FALSE],
              (CHOOSE o \in Orders(GlobKustomization) : TRUE)
              \o SelectSeq(CHOOSE o \in Orders(GlobOtherYaml) : TRUE, isFluxKustomizationFile))

\* the same forward sequences and the same back-reference sets; a file
\* without an entry is a file with the empty sequence (getReferencesForFile)
SameIndex(refs, back, m) ==
    /\ \A F \in FilePaths : Lookup(refs, F) = Lookup(m.fileReferences, F)
    /\ \A T \in FilePaths :
          Range(Lookup(back, T)) = Range(Lookup(m.fileBackReferences, T))

\* C2: once every event is delivered, no timer is pending and no rebuild is in
\* flight, the maps are those a full rebuild computes from the tree
C2_IncrementalEqualsRebuild ==
    (Quiet /\ pendingEvents = {}) => SameIndex(fileReferences, fileBackReferences, FullRebuild)

\* the entries of a forward list, or of a bucket, that do not involve D
WithoutTarget(refs, D) == SelectSeq(refs, LAMBDA T : T # D)
WithoutReferrer(bucket, D) == SelectSeq(bucket, LAMBDA b : b.path # D)

\* C7: when the delete of D has been processed, D is no key of either map, no
\* forward list holds D, no bucket holds D as referrer, and what involves
\* neither D as source nor D as target is as it was
C7_DeletionCleanup ==
    obs.last.kind = "deleted" =>
        LET D == obs.last.filePath
            before == obs.last
        IN /\ ~Has(fileBackReferences, D)
           /\ ~Has(fileReferences, D)
           /\ \A R \in DOMAIN fileReferences : D \notin Range(fileReferences[R])
           /\ \A T \in DOMAIN fileBackReferences :
                 \A b \in Range(fileBackReferences[T]) : b.path # D
           /\ DOMAIN fileReferences = DOMAIN before.fileReferences \ { D }
           /\ \A F \in DOMAIN fileReferences :
                 fileReferences[F] = WithoutTarget(before.fileReferences[F], D)
           /\ \A T \in DOMAIN before.fileBackReferences \ { D } :
                 Lookup(fileBackReferences, T)
                     = WithoutReferrer(before.fileBackReferences[T], D)
           /\ DOMAIN fileBackReferences \subseteq DOMAIN before.fileBackReferences

\* base/kustomization.yaml, referenced by two files and referencing one, was
\* deleted and processed; the entry of /repo/kustomization.yaml is as it was
C7_Witness ==
    /\ obs.last.kind = "deleted"
    /\ obs.last.filePath = PathBase
    /\ Cardinality(Range(Lookup(obs.last.fileBackReferences, PathBase))) = 2
    /\ Lookup(obs.last.fileReferences, PathBase) = << PathDeployment >>
    /\ Lookup(fileReferences, PathRootK) = << PathP1 >>
    /\ Lookup(fileReferences, PathOverlay) = << >>

(***************************************************************************)
(* SpecCache: the filesystem cache read, invalidated, refreshed and        *)
(* cleared in any order while files appear and disappear with no watcher   *)
(* event.  obs is the last call: its name, path, result, the number of     *)
(* stats it made, whether the entry was cached, and prev, the result of    *)
(* the exists() call before it on that path if nothing invalidated the     *)
(* path since (the empty set otherwise); seen keeps that result per path.  *)
(***************************************************************************)
CacheTree == With(NoFiles, PathP1 :> << PlainDoc >>)

\* the paths asked for: two files, one of them written as /repo/./p2.yaml,
\* and a directory
CachePaths == { PathP1, << "", "repo", ".", "p2.yaml" >>, << "", "repo", "base" >> }
OutOfBandFiles == { PathP1, PathP2 }

NothingSeen == [key \in { normalize(p) : p \in CachePaths } |-> {}]

InitCache ==
    /\ Constructed(CacheTree)
    /\ obs = [call |-> "none", seen |-> NothingSeen]

CacheFrame == UNCHANGED << indexVars, builds, watcherVars, pendingEvents >>

CallCachedFileExists ==
    \E path \in CachePaths :
        LET r == cachedFileExists(fileExistsCache, path) IN
        /\ fileExistsCache' = r.cache
        /\ obs' = [call |-> "exists", path |-> path, result |-> r.result, stats |-> r.stats,
                   hit |-> Has(fileExistsCache, normalize(path)),
                   prev |-> obs.seen[normalize(path)],
                   seen |-> [obs.seen EXCEPT ![normalize(path)] = { r.result }]]
        /\ UNCHANGED << files, fileStatCache, gitRootCache >>
        /\ CacheFrame

CallCachedIsDirectory ==
    \E path \in CachePaths :
        LET r == cachedIsDirectory(fileStatCache, path) IN
        /\ fileStatCache' = r.cache
        /\ obs' = [call |-> "isDirectory", path |-> path, result |-> r.result,
                   stats |-> r.stats, hit |-> Has(fileStatCache, normalize(path)),
                   seen |-> obs.seen]
        /\ UNCHANGED << files, fileExistsCache, gitRootCache >>
        /\ CacheFrame

CallInvalidateFileCache ==
    \E path \in CachePaths :
        /\ invalidateFileCache(path)
        /\ obs' = [call |-> "invalidate", path |-> path,
                   seen |-> [obs.seen EXCEPT ![normalize(path)] = {}]]
        /\ UNCHANGED files
        /\ CacheFrame

CallValidateAndRefresh ==
    \E path \in CachePaths :
        /\ validateAndRefresh(path)
        /\ obs' = [call |-> "validateAndRefresh", path |-> path,
                   seen |-> [obs.seen EXCEPT ![normalize(path)] = {}]]
        /\ UNCHANGED files
        /\ CacheFrame

CallClearCaches ==
    /\ clearCaches
    /\ obs' = [call |-> "clearAll", seen |-> NothingSeen]
    /\ UNCHANGED files
    /\ CacheFrame

\* a file appears or disappears and no watcher reports it
OutOfBandCreate ==
    \E p \in OutOfBandFiles :
        /\ ~files[p].exists
        /\ files' = [files EXCEPT ![p] = File(<< PlainDoc >>)]
        /\ UNCHANGED << cacheVars, obs >>
        /\ CacheFrame

OutOfBandDelete ==
    \E p \in OutOfBandFiles :
        /\ files[p].exists
        /\ files' = [files EXCEPT ![p] = Absent]
        /\ UNCHANGED << cacheVars, obs >>
        /\ CacheFrame

NextCache ==
    \/ CallCachedFileExists
    \/ CallCachedIsDirectory
    \/ CallInvalidateFileCache
    \/ CallValidateAndRefresh
    \/ CallClearCaches
    \/ OutOfBandCreate
    \/ OutOfBandDelete

SpecCache == InitCache /\ [][NextCache]_vars

\* C6: an exists() call returns what the exists() call before it on the same
\* path returned when no invalidate of the path, validateAndRefresh of the
\* path or clearAll came between, whatever happened to the file; and a call
\* that finds the entry cached makes no filesystem stat
C6_CacheTrust ==
    obs.call = "exists" =>
        /\ \A previous \in obs.prev : obs.result = previous
        /\ obs.hit => obs.stats = 0

\* exists() answered TRUE from the cache for a file deleted out-of-band
C6_Witness ==
    /\ obs.call = "exists"
    /\ obs.prev = { TRUE }
    /\ obs.result = TRUE
    /\ obs.hit
    /\ obs.stats = 0
    /\ obs.path = PathP1
    /\ ~files[PathP1].exists

(***************************************************************************)
(* SpecRebuild: parser.buildReferenceMap() called MaxRebuilds times, as    *)
(* the tests do, on a tree that does not change.  The trees combine a      *)
(* root kustomization, an overlay and a file under clusters/prod, or hold  *)
(* one document with one reference field.  obs counts the calls, tells     *)
(* whether each call began when no other was in flight, and keeps the maps *)
(* as they were when each call ended.                                      *)
(***************************************************************************)
MaxRebuilds == 2

RefMissing == JStr(<< "missing.yaml" >>)
\* /repo/clusters, a directory with no kustomization file in it
RefClusters == JStr(<< "clusters" >>)
RefBase == JStr(<< "base" >>)
RefP1Flux == JStr(<< ".", "p1.yaml" >>)
RefP1FromOverlay == JStr(<< "..", "..", "p1.yaml" >>)

\* the choice of not having the file
NoFile == << << "absent" >> >>

RootTexts ==
    { NoFile,
      << StdDoc([resources |-> JArr(<< RefP1 >>), patches |-> JArr(<< RefP1 >>)]) >>,
      << StdDoc([resources |-> JArr(<< RefP1 >>)]),
         StdDoc([resources |-> JArr(<< RefP1, RefP2 >>)]) >>,
      << StdDoc([patchesJson6902 |-> JArr(<< JNull >>)]) >>,
      << StdDoc([resources |-> JArr(<< RefMissing, RefClusters, RefBase >>)]) >> }

OverlayTexts ==
    { NoFile,
      << StdDoc([bases |-> JArr(<< RefToBaseStd >>)]) >> }

AppTexts ==
    { NoFile,
      << FluxDoc([path |-> RefToBaseFlux, patches |-> JArr(<< RefP1Flux >>)]) >>,
      << FluxDoc([path |-> RefToBaseFlux]), Malformed,
         FluxDoc([patches |-> JArr(<< RefP1Flux, JStr(<< "missing.yaml" >>) >>)]),
         FluxDoc([patchesStrategicMerge |-> JArr(<< RefP1Flux >>)]) >>,
      << StdDoc([resources |-> JArr(<< RefP1FromOverlay >>)]) >> }

RebuildBase ==
    With(NoFiles,
         PathBase :> << StdDoc([resources |-> JArr(<< JStr(<< "deployment.yaml" >>) >>)]) >>
         @@ PathP1 :> << PlainDoc >>
         @@ PathP2 :> << PlainDoc >>)

WithMaybe(t, p, text) == IF text = NoFile THEN t ELSE With(t, p :> text)

CombinedTrees ==
    { WithMaybe(WithMaybe(WithMaybe(RebuildBase, PathRootK, r), PathOverlay, o), PathApp, a) :
         r \in RootTexts, o \in OverlayTexts, a \in AppTexts }

\* one standard document with one reference field holding null and p1.yaml
StdFieldTrees ==
    { With(RebuildBase, PathRootK :> << StdDoc(f :> JArr(<< JNull, RefP1 >>)) >>) :
         f \in StdArrayFields }
    \cup { With(RebuildBase, PathRootK :> << StdDoc([patchesJson6902 |-> JArr(a)]) >>) :
              a \in { << JObj([path |-> RefP1]) >>, << JNull, JObj([path |-> RefP1]) >> } }

\* one Flux document with one reference field
FluxFieldTrees ==
    { With(RebuildBase, PathApp :> << FluxDoc(f :> JArr(<< JNull, RefP1Flux >>)) >>) :
         f \in FluxArrayFields }
    \cup { With(RebuildBase, PathApp :> << FluxDoc(f :> JArr(<< JNull, JObj([path |-> RefP1Flux]) >>)) >>) :
              f \in { "patches", "patchesStrategicMerge", "patchesJson6902" } }
    \cup { With(RebuildBase, PathApp :> << FluxDoc([path |-> r]) >>) :
              r \in { RefToBaseFlux, RefP1Flux } }

\* one file holding a Flux Kustomization document and a standard one
MixedTrees ==
    { With(RebuildBase,
           PathApp :> << FluxDoc([path |-> RefToBaseFlux]),
                         StdDoc([resources |-> JArr(<< RefP1FromOverlay >>)]) >>),
      With(RebuildBase,
           PathOverlay :> << StdDoc([resources |-> JArr(<< RefP1FromOverlay >>)]),
                             FluxDoc([path |-> RefToBaseFlux]) >>) }

RebuildTrees == CombinedTrees \cup StdFieldTrees \cup FluxFieldTrees \cup MixedTrees

InitRebuild ==
    /\ \E t \in RebuildTrees : Constructed(t)
    /\ obs = [calls |-> 0, inRow |-> TRUE, returned |-> << >>]

\* await parser.buildReferenceMap(), up to its await
CallBuildReferenceMap ==
    /\ obs.calls < MaxRebuilds
    /\ BuildStart("buildReferenceMap")
    /\ obs' = [obs EXCEPT !.calls = @ + 1, !.inRow = @ /\ builds = << >>]
    /\ UNCHANGED << fsVars, fileMetadata, cacheVars, watcherVars >>

RebuildGlob1 ==
    \E i \in 1..Len(builds) : BuildGlob1(i) /\ UNCHANGED obs

RebuildGlob2 ==
    \E i \in 1..Len(builds) :
        /\ BuildGlob2(i)
        /\ obs' = [obs EXCEPT !.returned =
                      Append(@, [fileReferences |-> fileReferences',
                                 fileBackReferences |-> fileBackReferences'])]

NextRebuild ==
    \/ CallBuildReferenceMap
    \/ RebuildGlob1
    \/ RebuildGlob2

SpecRebuild == InitRebuild /\ [][NextRebuild]_vars

\* the same keys, the same forward sequences, the same back-reference sets
SameContents(a, b) ==
    /\ DOMAIN a.fileReferences = DOMAIN b.fileReferences
    /\ \A F \in DOMAIN a.fileReferences : a.fileReferences[F] = b.fileReferences[F]
    /\ DOMAIN a.fileBackReferences = DOMAIN b.fileBackReferences
    /\ \A T \in DOMAIN a.fileBackReferences :
          Range(a.fileBackReferences[T]) = Range(b.fileBackReferences[T])

\* an iteration of the loop of buildReferenceMap throws on this tree
LoopThrows == \E F \in FilePaths : files[F].exists /\ ProcessFile(F).threw

\* when no iteration throws, two calls in a row leave the same contents
IdempotentWhenNoThrow ==
    (obs.inRow /\ Len(obs.returned) = MaxRebuilds /\ ~LoopThrows) =>
        SameContents(obs.returned[1], obs.returned[2])

\* C11: two buildReferenceMap calls in a row on an unchanged tree leave the
\* same index contents: the same keys of both maps, the same forward
\* sequences in the same order, the same back-reference sets
C11_RebuildIdempotence ==
    (obs.inRow /\ Len(obs.returned) = MaxRebuilds) =>
        SameContents(obs.returned[1], obs.returned[2])

RebuildReturned == builds = << >> /\ Len(obs.returned) >= 1

\* the final target of the reference string s of file F: the resolved path, or
\* the kustomization file in it when that is a directory
FinalTarget(F, s) == ExpandDirectory(resolveReference(F, s))

\* the path members of the entries of a patchesJson6902 array
Json6902Paths(x) ==
    IF IsArray(x)
    THEN { Get(e[2], "path")[2] :
              e \in { y \in Range(x[2]) : IsObject(y) /\ IsString(Get(y[2], "path")) } }
    ELSE {}

\* the reference strings of a standard document, by field
StandardReferenceStrings(d, f) ==
    IF f = "patchesJson6902" THEN Json6902Paths(Get(Fields(d), f))
    ELSE IF IsArray(Get(Fields(d), f)) THEN EntryStrings(Get(Fields(d), f))
    ELSE {}

\* the field f of the standard documents of F is covered by fileReferences[F]
StandardFieldCovered(F, f) ==
    \A d \in Range(getStandardKustomizationDocuments(ReadFile(F))) :
        \A s \in StandardReferenceStrings(d, f) :
            fileExists(FinalTarget(F, s)) =>
                FinalTarget(F, s) \in Range(Lookup(fileReferences, F))

\* C14: after a full rebuild, every entry of resources, bases, components,
\* patches, patchesStrategicMerge, configurations, crds, generators and
\* transformers, and the path of every patchesJson6902 entry, of every standard
\* kustomization file is in fileReferences[F] when its target exists
C14_StandardFieldCoverage ==
    RebuildReturned =>
        \A F \in GlobKustomization :
            \A f \in StdArrayFields \cup { "patchesJson6902" } : StandardFieldCovered(F, f)

\* the same for the fields buildReferenceMap reads, on documents whose
\* patchesJson6902 has no null entry
ReadStandardFieldsCovered ==
    (RebuildReturned /\ ~LoopThrows) =>
        \A F \in GlobKustomization :
            \A f \in (StdArrayFields \ { "generators", "transformers" }) \cup { "patchesJson6902" } :
                StandardFieldCovered(F, f)

\* the spec of a Flux document, as a record of fields
SpecOf(d) == Fields(Get(Fields(d), "spec"))

FluxPatchFields == { "patches", "patchesStrategicMerge", "patchesJson6902" }

\* the targets the field f of the spec of a Flux document of F refers to:
\* spec.path and the components may name a directory, a patch names a file
FluxFieldTargets(F, d, f) ==
    IF f = "path"
    THEN { FinalTarget(F, s) : s \in EntryStrings(Get(SpecOf(d), f)) }
    ELSE IF f = "components"
    THEN { FinalTarget(F, e[2]) :
              e \in { y \in Range(ArrayOrEmpty(Get(SpecOf(d), f))) : IsString(y) } }
    ELSE IF IsArray(Get(SpecOf(d), f))
    THEN { resolveReference(F, s) : s \in EntryStrings(Get(SpecOf(d), f)) \ { << "" >> } }
    ELSE {}

FluxFieldCovered(F, f) ==
    \A d \in Range(getFluxKustomizationDocuments(ReadFile(F))) :
        \A T \in FluxFieldTargets(F, d, f) :
            fileExists(T) => T \in Range(Lookup(fileReferences, F))

\* the Flux Kustomization files the rebuild finds
FluxFiles == { F \in GlobKustomization \cup GlobOtherYaml : isFluxKustomizationFile(F) }

\* C15: after a full rebuild, spec.path, every entry of spec.patches,
\* spec.patchesStrategicMerge and spec.patchesJson6902 that carries a path, and
\* every string entry of spec.components of every Flux Kustomization file is in
\* fileReferences[F] when its target exists
C15_FluxFieldCoverage ==
    RebuildReturned =>
        \A F \in FluxFiles :
            \A f \in FluxPatchFields \cup { "path", "components" } : FluxFieldCovered(F, f)

\* the same for the fields parseFluxKustomization resolves
ReadFluxFieldsCovered ==
    (RebuildReturned /\ ~LoopThrows) =>
        \A F \in FluxFiles :
            \A f \in FluxPatchFields \cup { "path" } : FluxFieldCovered(F, f)

\* provideDocumentLinks: the document content of the file gets the links of a
\* standard kustomization
isStandardKustomization(fileName, content) ==
    /\ ~isFluxKustomizationDocument(content)
    /\ IsKustomizationName(fileName)
    /\ isStandardKustomizationDocument(content)

\* C19: after a full rebuild that did not throw, every YAML file of the
\* workspace whose content holds a standard kustomization document, whatever
\* its name, has an entry in fileReferences with the existing targets of its
\* resources, and the link provider treats its standard documents as such
C19_ContentBasedDetection ==
    (RebuildReturned /\ ~LoopThrows) =>
        \A F \in FilePaths :
            (CanRead(F) /\ containsStandardKustomizations(ReadFile(F))) =>
                /\ Has(fileReferences, F)
                /\ StandardFieldCovered(F, "resources")
                /\ \A d \in Range(getStandardKustomizationDocuments(ReadFile(F))) :
                      isStandardKustomization(F, d)

\* the same for the files named kustomization.yaml or kustomization.yml
DetectedByName ==
    (RebuildReturned /\ ~LoopThrows) =>
        \A F \in FilePaths :
            (CanRead(F) /\ IsKustomizationName(F)
                /\ containsStandardKustomizations(ReadFile(F))) =>
                /\ Has(fileReferences, F)
                /\ StandardFieldCovered(F, "resources")
                /\ \A d \in Range(getStandardKustomizationDocuments(ReadFile(F))) :
                      isStandardKustomization(F, d)

\* the entries of the bucket of target T whose referrer is F
EntriesOf(T, F) ==
    { i \in 1..Len(Lookup(fileBackReferences, T)) : fileBackReferences[T][i].path = F }

\* C20: in every state, while rebuilds run, overlap and repeat, no bucket of
\* fileBackReferences holds two entries of the same referencing file
C20_NoDuplicateBackReferences ==
    \A T \in DOMAIN fileBackReferences :
        \A F \in FilePaths : Cardinality(EntriesOf(T, F)) <= 1

\* two overlapping rebuilds returned, the second loop ran on the maps the
\* first had filled; the root kustomization lists p1.yaml twice in its
\* forward references and has one entry in the bucket of p1.yaml
C20_Witness ==
    /\ RebuildReturned
    /\ Len(obs.returned) = MaxRebuilds
    /\ ~obs.inRow
    /\ Cardinality({ i \in 1..Len(Lookup(fileReferences, PathRootK)) :
                        fileReferences[PathRootK][i] = PathP1 }) >= 2
    /\ Cardinality(EntriesOf(PathP1, PathRootK)) = 1

\* the file holds a Flux Kustomization document and a standard one
IsMixedFile(F) ==
    /\ CanRead(F)
    /\ getFluxKustomizationDocuments(ReadFile(F)) # << >>
    /\ getStandardKustomizationDocuments(ReadFile(F)) # << >>

\* the target of the reference string s of F relative to the directory of F
FileRelativeTarget(F, s) == ExpandDirectory(resolve(dirname(F), s))

\* C29: after a full rebuild that did not throw, fileReferences[F] of a file F
\* with a Flux document and a standard document holds the existing targets of
\* the resources of the standard document, resolved from the directory of F
C29_MixedFilesIndexed ==
    (RebuildReturned /\ ~LoopThrows) =>
        \A F \in FilePaths :
            IsMixedFile(F) =>
                \A d \in Range(getStandardKustomizationDocuments(ReadFile(F))) :
                    \A s \in StandardReferenceStrings(d, "resources") :
                        fileExists(FileRelativeTarget(F, s)) =>
                            FileRelativeTarget(F, s) \in Range(Lookup(fileReferences, F))

\* the targets of the Flux document of such a file are recorded
MixedFilesFluxIndexed ==
    (RebuildReturned /\ ~LoopThrows) =>
        \A F \in FilePaths :
            IsMixedFile(F) => Range(getFluxResolvedReferences(F)) \subseteq
                                  Range(Lookup(fileReferences, F))

(***************************************************************************)
(* SpecParse: parseKustomizationFile applied to a file of up to MaxDocs    *)
(* documents drawn from ParseDocs, and to a path that cannot be read.      *)
(* obs is the last call and its result.                                    *)
(***************************************************************************)
MaxDocs == 3

\* a standard kustomization of the time before apiVersion and kind
LegacyDoc == JObj([resources |-> JArr(<< RefP1 >>), namePrefix |-> JStr(<< "prod-" >>)])
\* a Flux Kustomization whose patch path is a mapping, not a string
IllTypedFluxDoc == FluxDoc([patches |-> JArr(<< JObj([path |-> JObj([file |-> RefP1])]) >>)])
\* a Flux Kustomization without spec
SpeclessFluxDoc ==
    JObj([apiVersion |-> JStr(<< "kustomize.toolkit.fluxcd.io", "v1" >>), kind |-> Kustomization])

ParseDocs ==
    { Malformed,
      PlainDoc,
      JStr(<< "just a scalar" >>),
      StdDoc([resources |-> JArr(<< RefP1, RefP2 >>)]),
      LegacyDoc,
      FluxDoc([path |-> RefToBaseFlux, patches |-> JArr(<< RefP1Flux >>)]),
      SpeclessFluxDoc,
      IllTypedFluxDoc }

ParseTexts == UNION { [1..n -> ParseDocs] : n \in 0..MaxDocs }

ParseTrees == { With(RebuildBase, PathApp :> text) : text \in ParseTexts }

InitParse ==
    /\ \E t \in ParseTrees : Constructed(t)
    /\ obs = [call |-> "none"]

CallParseKustomizationFile(filePath) ==
    /\ obs' = [call |-> "parseKustomizationFile", filePath |-> filePath,
               result |-> parseKustomizationFile(filePath)]
    /\ gitRootCache' = AfterProcessing(gitRootCache, filePath)
    /\ UNCHANGED << fsVars, indexVars, fsCacheVars, watcherVars, builds >>

\* the file written, a file that does not exist, and a directory
NextParse ==
    \E filePath \in { PathApp, PathDeployment, << "", "repo", "base" >> } :
        CallParseKustomizationFile(filePath)

SpecParse == InitParse /\ [][NextParse]_vars

\* a document that is a kustomization and has what its kind is parsed from
ValidKustomizationDocument(d) ==
    /\ d # Malformed
    /\ \/ isStandardKustomizationDocument(d)
       \/ isFluxKustomizationDocument(d) /\ Truthy(Get(Fields(d), "spec"))

\* a Flux document on which parseFluxKustomization throws a TypeError
IllTyped(filePath, d) ==
    /\ d # Malformed
    /\ isFluxKustomizationDocument(d)
    /\ parseFluxKustomization(filePath, d).threw

\* the KustomizationFile entry of a valid kustomization document
EntryOf(filePath, d) ==
    IF isFluxKustomizationDocument(d)
    THEN parseFluxKustomization(filePath, d).kustomization
    ELSE parseStandardKustomization(filePath, d)

MaxFields == 4

ClassifyApiVersions ==
    { JUndef,
      JStr(<< "kustomize.config.k8s.io", "v1beta1" >>),
      JStr(<< "kustomize.config.k8s.io", "v1" >>),
      JStr(<< "kustomize.config.k8s.io" >>),
      JStr(<< "kustomize.toolkit.fluxcd.io", "v1" >>),
      JStr(<< "apps", "v1" >>),
      JStr(<< "v1" >>) }

ClassifyKinds == { JUndef, Kustomization, JStr(<< "Deployment" >>), JStr(<< "ConfigMap" >>) }

ClassifyFieldNames == { "resources", "bases", "namePrefix", "commonLabels", "metadata", "spec" }

\* the document with the given apiVersion and kind, when there is one, and the
\* named fields
ClassifyDoc(api, kind, names) ==
    JObj([f \in names \cup (IF api = JUndef THEN {} ELSE { "apiVersion" })
                      \cup (IF kind = JUndef THEN {} ELSE { "kind" }) |->
             IF f = "apiVersion" THEN api
             ELSE IF f = "kind" THEN kind
             ELSE JArr(<< >>)])

ClassifyDocs ==
    { ClassifyDoc(api, kind, names) :
         api \in ClassifyApiVersions, kind \in ClassifyKinds,
         names \in { S \in SUBSET ClassifyFieldNames : Cardinality(S) <= MaxFields } }

InitClassify ==
    /\ \E d \in ClassifyDocs : Constructed(With(NoFiles, PathRootK :> << d >>))
    /\ obs = [call |-> "none"]

CallIsStandardKustomizationDocument(content) ==
    /\ obs' = [call |-> "isStandardKustomizationDocument", content |-> content,
               result |-> isStandardKustomizationDocument(content)]
    /\ UNCHANGED << fsVars, indexVars, cacheVars, watcherVars, builds >>

CallContainsStandardKustomizations(filePath) ==
    /\ CanRead(filePath)
    /\ obs' = [call |-> "containsStandardKustomizations", filePath |-> filePath,
               result |-> containsStandardKustomizations(ReadFile(filePath))]
    /\ UNCHANGED << fsVars, indexVars, cacheVars, watcherVars, builds >>

NextClassify ==
    \/ \E d \in Range(parseMultipleYamlDocuments(ReadFile(PathRootK))) :
          CallIsStandardKustomizationDocument(d)
    \/ CallContainsStandardKustomizations(PathRootK)

SpecClassify == InitClassify /\ [][NextClassify]_vars

\* the eleven characteristic field names
CharacteristicFields ==
    { "resources", "bases", "patchesStrategicMerge", "patchesJson6902", "configMapGenerator",
      "secretGenerator", "generatorOptions", "namePrefix", "nameSuffix", "commonLabels",
      "commonAnnotations" }

\* the classification as claimed
ClaimStandard(doc) ==
    LET api == Get(Fields(doc), "apiVersion") IN
    \/ /\ IsString(api)
       /\ Len(api[2]) >= 2 /\ api[2][1] = "kustomize.config.k8s.io"
       /\ Get(Fields(doc), "kind") = Kustomization
    \/ /\ "apiVersion" \notin DOMAIN Fields(doc)
       /\ Cardinality(CharacteristicFields \cap DOMAIN Fields(doc)) >= 2

\* C16: isStandardKustomizationDocument(doc) is true exactly when apiVersion
\* starts with 'kustomize.config.k8s.io/' and kind is 'Kustomization', or doc
\* has no apiVersion and at least two of the eleven characteristic fields
C16_StandardClassification ==
    obs.call = "isStandardKustomizationDocument" => obs.result = ClaimStandard(obs.content)

\* the same on the documents that have no apiVersion or one of the
\* kustomize.config.k8s.io group
ClassificationOfOwnDocuments ==
    (/\ obs.call = "isStandardKustomizationDocument"
     /\ LET api == Get(Fields(obs.content), "apiVersion") IN
           api = JUndef \/ (Len(api[2]) >= 2 /\ api[2][1] = "kustomize.config.k8s.io"))
        => obs.result = ClaimStandard(obs.content)

(***************************************************************************)
(* SpecInvalidate: the filesystem cache read while the watchers observe    *)
(* files being created, changed and deleted.  After initialize(), the      *)
(* files of InvalidatePaths are written and deleted (MaxChanges times),    *)
(* the events are delivered to the handlers, the timers run, and the       *)
(* existence and the stat of the paths are read through the cache.  obs    *)
(* holds the number of changes, the paths whose existence entry (stale)    *)
(* and stat entry (staleStat) were made before an event that the watchers  *)
(* have observed on the path since, the number of reads (MaxReads at       *)
(* most), and the last read.                                               *)
(***************************************************************************)
MaxReads == 2

InvalidateTree ==
    With(NoFiles,
         PathRootK :> << StdDoc([resources |-> JArr(<< RefP1, RefP2 >>)]) >>
         @@ PathP1 :> << PlainDoc >>)

InvalidatePaths == { PathP1, PathP2 }

NoRead == [call |-> "none"]

InitInvalidate ==
    /\ Constructed(InvalidateTree)
    /\ obs = [changes |-> 0, reads |-> 0, stale |-> {}, staleStat |-> {}, read |-> NoRead]

\* the paths of a set that still have an entry in the cache
StillCached(S, cache) == { p \in S : Has(cache, p) }

\* what the observations become when the caches change without a read
Observed(events) ==
    obs' = [obs EXCEPT !.stale = StillCached(@ \cup events, fileExistsCache'),
                       !.staleStat = StillCached(@ \cup events, fileStatCache'),
                       !.read = NoRead]

\* a file is created or overwritten with a plain manifest
InvalidateWriteFile ==
    \E p \in { PathP1, PathP2 } :
        /\ watching = "on"
        /\ obs.changes < MaxChanges
        /\ files' = [files EXCEPT ![p] = [exists |-> TRUE, text |-> << PlainDoc >>,
                                          mtime |-> files[p].mtime + 1]]
        /\ pendingEvents' = pendingEvents
              \cup Raised(p, IF files[p].exists THEN "change" ELSE "create")
        /\ obs' = [obs EXCEPT !.changes = @ + 1, !.read = NoRead]
        /\ UNCHANGED << indexVars, cacheVars, builds, watcherVars >>

InvalidateDeleteFile ==
    \E p \in InvalidatePaths :
        /\ watching = "on"
        /\ obs.changes < MaxChanges
        /\ files[p].exists
        /\ files' = [files EXCEPT ![p] = [exists |-> FALSE, text |-> << >>,
                                          mtime |-> files[p].mtime]]
        /\ pendingEvents' = pendingEvents \cup Raised(p, "delete")
        /\ obs' = [obs EXCEPT !.changes = @ + 1, !.read = NoRead]
        /\ UNCHANGED << indexVars, cacheVars, builds, watcherVars >>

\* a watcher hands an event to its handler
InvalidateDeliver ==
    \E e \in pendingEvents :
        /\ IF e.watcher = "kustomization"
           THEN IF e.kind = "delete" THEN handleKustomizationFileDelete(e.path)
                ELSE handleKustomizationFileChange(e.path)
           ELSE IF e.kind = "delete" THEN handleYamlFileDelete(e.path)
                ELSE handleYamlFileChange(e.path)
        /\ Delivered(e)
        /\ Observed({ normalize(e.path) })

InvalidateFireIncrementalUpdate ==
    /\ FireIncrementalUpdate
    /\ Observed({})

\* the link provider asks whether a path exists
InvalidateCachedFileExists ==
    \E path \in InvalidatePaths :
        LET r == cachedFileExists(fileExistsCache, path) IN
        /\ watching = "on"
        /\ obs.reads < MaxReads
        /\ fileExistsCache' = r.cache
        /\ obs' = [obs EXCEPT
                      !.reads = @ + 1,
                      !.stale = @ \ (IF r.stats > 0 THEN { normalize(path) } ELSE {}),
                      !.read = [call |-> "cachedFileExists", path |-> path,
                                result |-> r.result,
                                observedSince |-> r.stats = 0 /\ normalize(path) \in obs.stale]]
        /\ UNCHANGED << fsVars, indexVars, fileStatCache, gitRootCache, builds, watcherVars >>

\* the link provider asks whether a path is a directory
InvalidateCachedIsDirectory ==
    \E path \in InvalidatePaths :
        LET r == cachedIsDirectory(fileStatCache, path) IN
        /\ watching = "on"
        /\ obs.reads < MaxReads
        /\ fileStatCache' = r.cache
        /\ obs' = [obs EXCEPT
                      !.reads = @ + 1,
                      !.staleStat = @ \ (IF r.stats > 0 THEN { normalize(path) } ELSE {}),
                      !.read = [call |-> "cachedIsDirectory", path |-> path,
                                result |-> r.result,
                                observedSince |-> r.stats = 0 /\ normalize(path) \in obs.staleStat]]
        /\ UNCHANGED << fsVars, indexVars, fileExistsCache, gitRootCache, builds, watcherVars >>

NextInvalidate ==
    \/ Initialize /\ UNCHANGED obs
    \/ \E i \in 1..Len(builds) : BuildGlob1(i) /\ UNCHANGED obs
    \/ \E i \in 1..Len(builds) : BuildGlob2(i) /\ UNCHANGED obs
    \/ InvalidateWriteFile
    \/ InvalidateDeleteFile
    \/ InvalidateDeliver
    \/ InvalidateFireIncrementalUpdate
    \/ InvalidateCachedFileExists
    \/ InvalidateCachedIsDirectory
    \/ CleanupInterval /\ UNCHANGED obs
    \/ Tick /\ UNCHANGED obs

SpecInvalidate == InitInvalidate /\ [][NextInvalidate]_vars

\* C17: no cachedFileExists or cachedIsDirectory read of a path is answered
\* from an entry made before a create, change or delete event that the
\* watchers have observed on that path, whatever kind of file the path is
C17_InvalidationOnEveryEvent ==
    obs.read.call # "none" => ~obs.read.observedSince


(***************************************************************************)
(* SpecGitRoot: calls of findGitRoot, made directly for any path and made  *)
(* by resolveReference for the Flux file of the tree.  obs counts the      *)
(* subprocesses run per directory and keeps the last call.                 *)
(***************************************************************************)
MaxGitCalls == 4

PathElsewhere == << "", "elsewhere", "app.yaml" >>
PathElsewhereK == << "", "elsewhere", "x", kustomizationYaml >>
PathOutsideRoot == << "", "srv", "repo.yaml" >>

GitRootPaths == FilePaths \cup { PathElsewhere, PathElsewhereK, PathOutsideRoot }

NoGitCall == [filePath |-> << >>, result |-> << >>, execs |-> 0, cached |-> FALSE]

InitGitRoot ==
    /\ Constructed(ResolveTree)
    /\ obs = [calls |-> 0, execs |-> EmptyMap, last |-> NoGitCall]

\* the observation after findGitRoot(filePath) answered r
GitRootObserved(filePath, r) ==
    [calls |-> obs.calls + 1,
     execs |-> IF r.execs = 0 THEN obs.execs
               ELSE Put(obs.execs, dirname(filePath),
                        (IF Has(obs.execs, dirname(filePath))
                         THEN obs.execs[dirname(filePath)] ELSE 0) + r.execs),
     last |-> [filePath |-> filePath, result |-> r.result, execs |-> r.execs,
               cached |-> Has(gitRootCache, dirname(filePath))]]

CallFindGitRoot(filePath) ==
    /\ obs.calls < MaxGitCalls
    /\ LET r == findGitRootCall(gitRootCache, filePath)
       IN /\ gitRootCache' = r.cache
          /\ obs' = GitRootObserved(filePath, r)
    /\ UNCHANGED << fsVars, indexVars, fsCacheVars, watcherVars, builds >>

\* resolveReference(basePath, reference) of a Flux file: findGitRoot(basePath)
GitRootResolveReference(basePath, reference) ==
    /\ obs.calls < MaxGitCalls
    /\ isFluxKustomizationFile(basePath)
    /\ LET r == findGitRootCall(gitRootCache, basePath)
       IN /\ gitRootCache' = r.cache
          /\ obs' = GitRootObserved(basePath, r)
    /\ UNCHANGED << fsVars, indexVars, fsCacheVars, watcherVars, builds >>

NextGitRoot ==
    \/ \E filePath \in GitRootPaths : CallFindGitRoot(filePath)
    \/ \E basePath \in FilePaths, reference \in RefStrings :
          GitRootResolveReference(basePath, reference)

SpecGitRoot == InitGitRoot /\ [][NextGitRoot]_vars

\* C18: the subprocess ran at most once for every directory, also for one
\* where it failed; a call for a directory where git fails returned the
\* workspace root and left it cached; a call for a directory already in the
\* cache ran no subprocess and returned the cached root
C18_GitRootMemoised ==
    /\ \A dir \in DOMAIN obs.execs : obs.execs[dir] <= 1
    /\ obs.last.filePath # << >> =>
          LET dir == dirname(obs.last.filePath) IN
          /\ Has(gitRootCache, dir)
          /\ gitRootCache[dir] = obs.last.result
          /\ obs.last.cached => obs.last.execs = 0
          /\ ~execSyncGit(dir).ok => obs.last.result = WorkspaceRoot
          /\ execSyncGit(dir).ok => obs.last.result = execSyncGit(dir).stdout

\* a second call for a directory where git failed was answered from the cache
C18_Witness ==
    /\ obs.last.filePath # << >>
    /\ ~execSyncGit(dirname(obs.last.filePath)).ok
    /\ obs.last.cached
    /\ obs.last.execs = 0
    /\ obs.last.result = WorkspaceRoot
    /\ obs.execs[dirname(obs.last.filePath)] = 1


(***************************************************************************)
(* Forward references of the rebuilt index (SpecRebuild)                   *)
(***************************************************************************)
\* C21: for every file F, fileReferences[F] holds each resolved target at
\* most once, also when F names the target in several fields or documents
C21_NoDuplicateForwardReferences ==
    \A F \in DOMAIN fileReferences :
        \A i, j \in 1..Len(fileReferences[F]) :
            fileReferences[F][i] = fileReferences[F][j] => i = j


(***************************************************************************)
(* SpecCascade: the watcher over a chain of references: the root           *)
(* kustomization names the overlay, the overlay and the Flux file name the *)
(* base directory, which holds kustomization.yml and later also            *)
(* kustomization.yaml.  obs holds the number of changes made and, after an *)
(* incremental update of an existing file, the file, the referrers the     *)
(* cascade was for, and the index and metadata before the update.          *)
(***************************************************************************)
RefOverlayDir == JStr(<< "overlays", "prod" >>)
RefBaseFromOverlay == JStr(<< "..", "..", "base" >>)
RefDeployment == JStr(<< "deployment.yaml" >>)

CascadeTree ==
    With(NoFiles,
         PathRootK :> << StdDoc([resources |-> JArr(<< RefOverlayDir >>)]) >>
         @@ PathOverlay :> << StdDoc([bases |-> JArr(<< RefBaseFromOverlay >>)]) >>
         @@ PathBaseYml :> << StdDoc([resources |-> JArr(<< RefDeployment >>)]) >>
         @@ PathDeployment :> << PlainDoc >>
         @@ PathApp :> << FluxDoc([path |-> RefToBaseFlux]) >>)

CascadeContents(p) ==
    IF p = PathApp THEN { CascadeTree[PathApp].text, << PlainDoc >> }
    ELSE IF p \in { PathBase, PathBaseYml } THEN { CascadeTree[PathBaseYml].text }
    ELSE {}

InitCascade ==
    /\ Constructed(CascadeTree)
    /\ obs = [changes |-> 0, last |-> NoUpdate]

CascadeWriteFile ==
    \E p \in FilePaths : \E text \in CascadeContents(p) :
        /\ watching = "on"
        /\ obs.changes < MaxChanges
        /\ files' = [files EXCEPT ![p] = [exists |-> TRUE, text |-> text,
                                          mtime |-> files[p].mtime + 1]]
        /\ pendingEvents' = pendingEvents
              \cup Raised(p, IF files[p].exists THEN "change" ELSE "create")
        /\ obs' = [obs EXCEPT !.changes = @ + 1]
        /\ UNCHANGED << indexVars, cacheVars, builds, watcherVars >>

\* the index and the metadata as one record
CurrentIndex ==
    [fileReferences |-> fileReferences, fileBackReferences |-> fileBackReferences,
     fileMetadata |-> fileMetadata]

\* the back-referrers of F once F itself has been updated
ReferrersAfterUpdate(F) ==
    { b.path : b \in Range(Lookup(UpdateChanged(CurrentIndex, F, FALSE).fileBackReferences, F)) }

CascadeFireIncrementalUpdate ==
    /\ FireIncrementalUpdate
    /\ obs' = [obs EXCEPT !.last =
                  IF fileExists(scanTimeout.filePath)
                        /\ ~Unchanged(CurrentIndex, scanTimeout.filePath)
                  THEN [kind |-> "changed",
                        filePath |-> scanTimeout.filePath,
                        referrers |-> ReferrersAfterUpdate(scanTimeout.filePath),
                        before |-> CurrentIndex]
                  ELSE NoUpdate]

NextCascade ==
    \/ Initialize /\ UNCHANGED obs
    \/ \E i \in 1..Len(builds) : BuildGlob1(i) /\ UNCHANGED obs
    \/ \E i \in 1..Len(builds) : BuildGlob2(i) /\ obs' = [obs EXCEPT !.last = NoUpdate]
    \/ CascadeWriteFile
    \/ DeliverKustomizationFileChange
    \/ DeliverYamlFileChange
    \/ CascadeFireIncrementalUpdate
    \/ CleanupInterval /\ UNCHANGED obs
    \/ Tick /\ UNCHANGED obs

SpecCascade == InitCascade /\ [][NextCascade]_vars

\* the references a fresh parse and resolution of R gives
FreshReferences(R) ==
    IF ProcessFile(R).skip \/ ProcessFile(R).threw THEN << >> ELSE ProcessFile(R).refs

\* an incremental update of the existing file F, whose mtime is not the
\* recorded one, recomputes every back-referrer of F and no other file
CascadeOneLevel ==
    LET F == scanTimeout.filePath IN
    (fileExists(F) /\ ~Unchanged(CurrentIndex, F)) =>
        /\ \A R \in ReferrersAfterUpdate(F) :
              /\ Lookup(fileReferences', R) = FreshReferences(R)
              /\ Has(fileMetadata', R)
              /\ fileMetadata'[R].mtime = files[R].mtime
        /\ \A X \in FilePaths \ (ReferrersAfterUpdate(F) \cup { F }) :
              /\ Lookup(fileReferences', X) = Lookup(fileReferences, X)
              /\ Has(fileMetadata', X) = Has(fileMetadata, X)
              /\ Has(fileMetadata, X) => fileMetadata'[X] = fileMetadata[X]

\* C22: every incremental update of a file F recomputes, in the same step,
\* every file then listed as a back-referrer of F, also one whose own mtime is
\* the recorded one, and recomputes no referrer of those referrers
C22_CascadeOneLevel == [][CascadeFireIncrementalUpdate => CascadeOneLevel]_vars

\* an update whose cascade changed the entry of a referrer R that was never
\* written itself, while a referrer of R was not recomputed
C22_Witness ==
    /\ obs.last.kind = "changed"
    /\ \E R \in obs.last.referrers :
          /\ R # obs.last.filePath
          /\ files[R].mtime = CascadeTree[R].mtime
          /\ Lookup(fileReferences, R) # Lookup(obs.last.before.fileReferences, R)
          /\ Lookup(fileReferences, R) = FreshReferences(R)
          /\ Has(fileMetadata, R)
          /\ \E RR \in FilePaths \ (obs.last.referrers \cup { obs.last.filePath }) :
                /\ R \in Range(Lookup(fileReferences, RR))
                /\ ~Has(fileMetadata, RR)


(***************************************************************************)
(* SpecExclusive: a burst of change events crosses massChangeThreshold,    *)
(* the debounce timer starts the full rebuild, and events keep arriving    *)
(* while the rebuild awaits its globs.  obs holds the number of events and *)
(* what was started while a full rebuild had not finished.                 *)
(***************************************************************************)
ExtraEvents == 2

InitExclusive ==
    /\ Constructed(WatcherTree)
    /\ obs = [events |-> 0, startedDuringRebuild |-> "none"]

\* the events of the burst arrive back to back
ExclusiveFileChange ==
    /\ obs.events < massChangeThreshold + 1 + ExtraEvents
    /\ handleKustomizationFileChange(BurstPath(obs.events))
    /\ obs' = [obs EXCEPT !.events = @ + 1]
    /\ UNCHANGED pendingEvents

ExclusiveTick ==
    /\ obs.events = 0 \/ obs.events > massChangeThreshold
    /\ Tick
    /\ UNCHANGED obs

\* the timer callback calls updateFileReferences
ExclusiveFireIncrementalUpdate ==
    /\ FireIncrementalUpdate
    /\ obs' = [obs EXCEPT !.startedDuringRebuild =
                  IF builds # << >> THEN "updateFileReferences" ELSE @]

\* the timer callback calls updateReferences
ExclusiveFireScanWorkspace ==
    /\ FireScanWorkspace
    /\ obs' = [obs EXCEPT !.startedDuringRebuild =
                  IF builds # << >> THEN "updateReferences" ELSE @]

NextExclusive ==
    \/ Initialize /\ UNCHANGED obs
    \/ \E i \in 1..Len(builds) : BuildGlob1(i) /\ UNCHANGED obs
    \/ \E i \in 1..Len(builds) : BuildGlob2(i) /\ UNCHANGED obs
    \/ ExclusiveFileChange
    \/ ExclusiveFireIncrementalUpdate
    \/ ExclusiveFireScanWorkspace
    \/ CleanupInterval /\ UNCHANGED obs
    \/ ExclusiveTick

SpecExclusive == InitExclusive /\ [][NextExclusive]_vars

\* C23: no incremental update and no second full rebuild starts while a full
\* rebuild started by the debounce timer or by initialize() has not finished
C23_MutualExclusion ==
    /\ Len(builds) <= 1
    /\ obs.startedDuringRebuild = "none"

\* the rebuilds started by initialize() and by the timer do not overlap
RebuildsDoNotOverlap == Len(builds) <= 1


(***************************************************************************)
(* SpecWindow: change events arrive in groups, at any phase of the cleanup *)
(* interval.  obs holds the number of events and, for each of the last     *)
(* WindowSlots instants (Quantum apart, so less than changeRateWindow from *)
(* the first to the last), the number of events handled at that instant    *)
(* since the last detection of a mass change.                              *)
(***************************************************************************)
GroupSize == 30
WindowSlots == changeRateWindow \div Quantum

InitWindow ==
    /\ Constructed(WatcherTree)
    /\ obs = [events |-> 0, slots |-> [i \in 1..WindowSlots |-> 0], detected |-> 0]

\* an event is handled: it is counted at the current instant, and a detection
\* discards the count
WindowFileChange ==
    /\ obs.events < BurstEvents
    /\ handleKustomizationFileChange(BurstPath(obs.events))
    /\ obs' = IF recentChangeEvents + 1 > massChangeThreshold
              THEN [events |-> obs.events + 1,
                    slots |-> [i \in 1..WindowSlots |-> 0],
                    detected |-> Min(2, obs.detected + 1)]
              ELSE [obs EXCEPT !.events = @ + 1, !.slots[1] = @ + 1]
    /\ UNCHANGED pendingEvents

\* time passes between two groups of events
WindowTick ==
    /\ obs.events % GroupSize = 0
    /\ Tick
    /\ obs' = [obs EXCEPT !.slots = [i \in 1..WindowSlots |->
                                        IF i = 1 THEN 0 ELSE obs.slots[i - 1]]]

NextWindow ==
    \/ Initialize /\ UNCHANGED obs
    \/ \E i \in 1..Len(builds) : BuildGlob1(i) /\ UNCHANGED obs
    \/ \E i \in 1..Len(builds) : BuildGlob2(i) /\ UNCHANGED obs
    \/ WindowFileChange
    \/ FireIncrementalUpdate /\ UNCHANGED obs
    \/ FireScanWorkspace /\ UNCHANGED obs
    \/ CleanupInterval /\ UNCHANGED obs
    \/ WindowTick

SpecWindow == InitWindow /\ [][NextWindow]_vars

\* the events handled within the last WindowSlots instants
RollingCount == Fold(LAMBDA a, n : a + n, 0, obs.slots)

\* C24: no interval shorter than changeRateWindow holds more than
\* massChangeThreshold events without a detection of the mass change
C24_RollingWindow == RollingCount <= massChangeThreshold

\* the same for the events since the last reset of the counter
DetectedWithinInterval == recentChangeEvents <= massChangeThreshold


(***************************************************************************)
(* SpecRouting: Flux Kustomization files named app.yaml,                   *)
(* apps-kustomization.yaml and kustomization.yaml are written, the events  *)
(* of the two watchers are delivered in any order and the timers run.  obs *)
(* holds the number of changes made, the last event delivered with whether *)
(* the file held a Flux document then and whether handleFileChange was     *)
(* called, and the number of handleFileChange calls for the last change.   *)
(***************************************************************************)
RoutingTree ==
    With(NoFiles,
         PathApp :> << FluxDoc([path |-> RefToBaseFlux]) >>
         @@ PathAppsK :> << FluxDoc([path |-> RefToBaseFlux]) >>
         @@ PathOverlay :> << FluxDoc([path |-> RefToBaseFlux]) >>
         @@ PathBase :> << StdDoc([resources |-> JArr(<< RefDeployment >>)]) >>
         @@ PathDeployment :> << PlainDoc >>)

RoutingContents(p) ==
    IF p \in { PathApp, PathAppsK } THEN { RoutingTree[p].text, << PlainDoc >> }
    ELSE IF p = PathOverlay THEN { RoutingTree[p].text }
    ELSE {}

NoEvent == [kind |-> "none"]

InitRouting ==
    /\ Constructed(RoutingTree)
    /\ obs = [changes |-> 0, last |-> NoEvent, counted |-> 0]

\* a file is created or overwritten, or deleted, once no event is pending
RoutingWriteFile ==
    \E p \in FilePaths : \E text \in RoutingContents(p) :
        /\ watching = "on"
        /\ pendingEvents = {}
        /\ obs.changes < MaxChanges
        /\ files' = [files EXCEPT ![p] = [exists |-> TRUE, text |-> text,
                                          mtime |-> files[p].mtime + 1]]
        /\ pendingEvents' = Raised(p, IF files[p].exists THEN "change" ELSE "create")
        /\ obs' = [changes |-> obs.changes + 1, last |-> NoEvent, counted |-> 0]
        /\ UNCHANGED << indexVars, cacheVars, builds, watcherVars >>

RoutingDeleteFile ==
    \E p \in FilePaths :
        /\ watching = "on"
        /\ pendingEvents = {}
        /\ obs.changes < MaxChanges
        /\ RoutingContents(p) # {}
        /\ files[p].exists
        /\ files' = [files EXCEPT ![p] = [exists |-> FALSE, text |-> << >>,
                                          mtime |-> files[p].mtime]]
        /\ pendingEvents' = Raised(p, "delete")
        /\ obs' = [changes |-> obs.changes + 1, last |-> NoEvent, counted |-> 0]
        /\ UNCHANGED << indexVars, cacheVars, builds, watcherVars >>

\* handleFileChange was called in this step: it pushed to recentChangeEvents,
\* or emptied it on a mass change
HandleFileChangeCalled(p) == recentChangeEvents' # recentChangeEvents

\* the event e is delivered to the handler subscribed for it
RoutingDeliver ==
    \E e \in pendingEvents :
        /\ IF e.watcher = "kustomization"
           THEN IF e.kind = "delete" THEN handleKustomizationFileDelete(e.path)
                ELSE handleKustomizationFileChange(e.path)
           ELSE IF e.kind = "delete" THEN handleYamlFileDelete(e.path)
                ELSE handleYamlFileChange(e.path)
        /\ Delivered(e)
        /\ obs' = [obs EXCEPT
                      !.last = [kind |-> e.kind, watcher |-> e.watcher, path |-> e.path,
                                flux |-> isFluxKustomizationFile(e.path),
                                called |-> HandleFileChangeCalled(e.path),
                                left |-> pendingEvents \ { e }],
                      !.counted = @ + IF HandleFileChangeCalled(e.path) THEN 1 ELSE 0]

NextRouting ==
    \/ Initialize /\ UNCHANGED obs
    \/ \E i \in 1..Len(builds) : BuildGlob1(i) /\ UNCHANGED obs
    \/ \E i \in 1..Len(builds) : BuildGlob2(i) /\ UNCHANGED obs
    \/ RoutingWriteFile
    \/ RoutingDeleteFile
    \/ RoutingDeliver
    \/ FireIncrementalUpdate /\ UNCHANGED obs
    \/ CleanupInterval /\ UNCHANGED obs
    \/ Tick /\ UNCHANGED obs

SpecRouting == InitRouting /\ [][NextRouting]_vars

\* C25: once every event of a create or change of a file that holds a Flux
\* Kustomization document is delivered, handleFileChange was called for the
\* file, whatever its name
C25_FluxEventRouting ==
    (/\ obs.last.kind \in { "create", "change" }
     /\ obs.last.left = {}
     /\ obs.last.flux) => obs.counted >= 1

\* the same for the files whose name does not end in kustomization.yaml/.yml
RoutedWhenNamedOtherwise ==
    (/\ obs.last.kind \in { "create", "change" }
     /\ obs.last.left = {}
     /\ obs.last.flux
     /\ ~EndsWithKustomization(obs.last.path)) => obs.counted >= 1


\* C26: once the events of one create, change or delete of a file named
\* kustomization.yaml or kustomization.yml are delivered, the change has
\* added one entry to recentChangeEvents
C26_EventCountedOnce ==
    (/\ obs.last.kind # "none"
     /\ obs.last.left = {}
     /\ IsKustomizationName(obs.last.path)) => obs.counted = 1

\* the same for the creates and changes alone
CreateOrChangeCountedOnce ==
    (/\ obs.last.kind \in { "create", "change" }
     /\ obs.last.left = {}
     /\ IsKustomizationName(obs.last.path)) => obs.counted = 1


\* C27: once the change event of a file not named kustomization.yaml/.yml
\* that no longer holds a Flux Kustomization document has been handled, and
\* no timer or rebuild is pending, the file has no forward references and is
\* in no back-reference bucket
C27_DeclassificationTracked ==
    (/\ obs.last.kind = "change"
     /\ obs.last.left = {}
     /\ ~IsKustomizationName(obs.last.path)
     /\ CanRead(obs.last.path)
     /\ ~isFluxKustomizationFile(obs.last.path)
     /\ scanTimeout.kind = "none"
     /\ builds = << >>) =>
        /\ Lookup(fileReferences, obs.last.path) = << >>
        /\ \A T \in DOMAIN fileBackReferences :
              \A i \in 1..Len(fileBackReferences[T]) :
                  fileBackReferences[T][i].path # obs.last.path


(***************************************************************************)
(* SpecReaders: buildReferenceMap is called (again and again, up to        *)
(* MaxRebuilds times) while getReferencesForFile and                       *)
(* getBackReferencesForFile are called, also between the steps of a        *)
(* rebuild.  The files do not change.  obs holds the number of rebuilds    *)
(* and reads, the maps as they were when the rebuild in progress started,  *)
(* and the last read with its answers.                                     *)
(***************************************************************************)
ReaderTrees == { IndexTree, RoutingTree }

ReaderPaths == { PathApp, PathBase, PathDeployment }

InitReaders ==
    /\ \E t \in ReaderTrees : Constructed(t)
    /\ obs = [calls |-> 0, reads |-> 0,
              pre |-> [fileReferences |-> EmptyMap, fileBackReferences |-> EmptyMap],
              read |-> NoRead]

getReferencesForFile(filePath) == Lookup(fileReferences, filePath)

getBackReferencesForFile(filePath) == Lookup(fileBackReferences, normalize(filePath))

ReadersCallBuildReferenceMap ==
    /\ obs.calls < MaxRebuilds
    /\ BuildStart("buildReferenceMap")
    /\ obs' = [obs EXCEPT
                  !.calls = @ + 1,
                  !.pre = IF builds = << >>
                          THEN [fileReferences |-> fileReferences,
                                fileBackReferences |-> fileBackReferences]
                          ELSE @]
    /\ UNCHANGED << fsVars, fileMetadata, cacheVars, watcherVars >>

\* a provider reads the index for filePath
ReadIndex(filePath) ==
    /\ obs.reads < MaxReads
    /\ obs' = [obs EXCEPT
                  !.reads = @ + 1,
                  !.read = [call |-> "read", filePath |-> filePath,
                            references |-> getReferencesForFile(filePath),
                            backReferences |-> getBackReferencesForFile(filePath),
                            during |-> builds # << >>]]
    /\ UNCHANGED << fsVars, indexVars, cacheVars, watcherVars, builds >>

NextReaders ==
    \/ ReadersCallBuildReferenceMap
    \/ \E i \in 1..Len(builds) : BuildGlob1(i) /\ UNCHANGED obs
    \/ \E i \in 1..Len(builds) : BuildGlob2(i) /\ UNCHANGED obs
    \/ \E filePath \in ReaderPaths : ReadIndex(filePath)

SpecReaders == InitReaders /\ [][NextReaders]_vars

\* the answers of a read are those the maps m give for the file
AnswersFrom(read, m) ==
    /\ read.references = Lookup(m.fileReferences, read.filePath)
    /\ Range(read.backReferences)
          = Range(Lookup(m.fileBackReferences, normalize(read.filePath)))

\* C28: a read made while buildReferenceMap is in progress answers from the
\* complete maps of before the rebuild or from the complete maps of after it
C28_RebuildAtomicForReaders ==
    (obs.read.call = "read" /\ obs.read.during) =>
        \/ AnswersFrom(obs.read, obs.pre)
        \/ AnswersFrom(obs.read, FullRebuild)


(***************************************************************************)
(* SpecGraph: the index is built for a tree whose references form a chain, *)
(* a cycle, a self-reference or a diamond, and generateDependencyGraph is  *)
(* called for a start file.  obs holds the last call and the graph it      *)
(* returned: nodes, edges, and the number of processFile calls made.       *)
(***************************************************************************)
MaxDepth == 3

RefDot == JStr(<< "." >>)
RefUp == JStr(<< ".." >>)
RefBaseDir == JStr(<< "base" >>)
RefAppFromBase == JStr(<< "..", "clusters", "prod", "app.yaml" >>)
RefAppsKFlux == JStr(<< ".", "clusters", "prod", appsKustomizationYaml >>)
RefBaseYmlFlux == JStr(<< ".", "base", kustomizationYml >>)

\* root -> overlay -> base -> app.yaml -> apps-kustomization.yaml ->
\* base/kustomization.yml -> deployment.yaml
ChainTree ==
    With(NoFiles,
         PathRootK :> << StdDoc([resources |-> JArr(<< RefOverlayDir >>)]) >>
         @@ PathOverlay :> << StdDoc([bases |-> JArr(<< RefBaseFromOverlay >>)]) >>
         @@ PathBase :> << StdDoc([resources |-> JArr(<< RefAppFromBase >>)]) >>
         @@ PathApp :> << FluxDoc([path |-> RefAppsKFlux]) >>
         @@ PathAppsK :> << FluxDoc([path |-> RefBaseYmlFlux]) >>
         @@ PathBaseYml :> << StdDoc([resources |-> JArr(<< RefDeployment >>)]) >>
         @@ PathDeployment :> << PlainDoc >>)

\* root -> base -> root, and root -> p1.yaml
CycleTree ==
    With(NoFiles,
         PathRootK :> << StdDoc([resources |-> JArr(<< RefBaseDir, RefP1 >>)]) >>
         @@ PathBase :> << StdDoc([resources |-> JArr(<< RefUp, RefDeployment >>)]) >>
         @@ PathDeployment :> << PlainDoc >>
         @@ PathP1 :> << PlainDoc >>)

\* root -> root, twice, and root -> p1.yaml twice
SelfTree ==
    With(NoFiles,
         PathRootK :> << StdDoc([resources |-> JArr(<< RefDot, RefP1 >>),
                                 patches |-> JArr(<< RefP1, RefDot >>)]) >>
         @@ PathP1 :> << PlainDoc >>)

\* root -> overlay -> base and root -> base, the Flux files -> base
DiamondTree ==
    With(NoFiles,
         PathRootK :> << StdDoc([resources |-> JArr(<< RefOverlayDir, RefBaseDir >>)]) >>
         @@ PathOverlay :> << StdDoc([bases |-> JArr(<< RefBaseFromOverlay >>)]) >>
         @@ PathBase :> << StdDoc([resources |-> JArr(<< RefDeployment >>)]) >>
         @@ PathDeployment :> << PlainDoc >>
         @@ PathApp :> << FluxDoc([path |-> RefToBaseFlux]) >>)

GraphTrees == { ChainTree, CycleTree, SelfTree, DiamondTree, IndexTree }

NoGraph == [call |-> "none"]

InitGraph ==
    /\ \E t \in GraphTrees : Constructed(t)
    /\ obs = [calls |-> 0, last |-> NoGraph]

EmptyGraph == [nodes |-> << >>, edges |-> << >>, processedFiles |-> {}, calls |-> 0]

\* the node generateDependencyGraph pushes for filePath
GraphNode(filePath) ==
    [id |-> filePath,
     label |-> IF isKustomizationFile(filePath)
               THEN << Basename(dirname(filePath)), Basename(filePath) >>
               ELSE << Basename(filePath) >>,
     group |-> IF isKustomizationFile(filePath) THEN "kustomization" ELSE "resource"]

\* processFile with the depth tested before the node is pushed
RECURSIVE processFileDepthFirst(_, _, _)
RECURSIVE processReferencesDepthFirst(_, _, _, _)

processFileDepthFirst(g, filePath, depth) ==
    IF filePath \in g.processedFiles THEN [g EXCEPT !.calls = @ + 1]
    ELSE IF depth > MaxDepth
    THEN [g EXCEPT !.calls = @ + 1, !.processedFiles = @ \cup { filePath }]
    ELSE Bind([nodes |-> Append(g.nodes, GraphNode(filePath)),
               edges |-> g.edges,
               processedFiles |-> g.processedFiles \cup { filePath },
               calls |-> g.calls + 1],
              LAMBDA g1 :
                 IF ~isKustomizationFile(filePath) THEN g1
                 ELSE processReferencesDepthFirst(g1, filePath,
                                                  Lookup(fileReferences, filePath), depth))

processReferencesDepthFirst(g, filePath, references, depth) ==
    IF references = << >> THEN g
    ELSE Bind(processFileDepthFirst(
                  [g EXCEPT !.edges = Append(@, [from |-> filePath, to |-> Head(references)])],
                  Head(references), depth + 1),
              LAMBDA g1 : processReferencesDepthFirst(g1, filePath, Tail(references), depth))

\* processFile(filePath, depth) of generateDependencyGraph on the graph g
RECURSIVE processFile(_, _, _)
RECURSIVE processReferences(_, _, _, _)

processFile(g, filePath, depth) ==
    IF filePath \in g.processedFiles THEN [g EXCEPT !.calls = @ + 1]
    ELSE Bind([nodes |-> Append(g.nodes, GraphNode(filePath)),
               edges |-> g.edges,
               processedFiles |-> g.processedFiles \cup { filePath },
               calls |-> g.calls + 1],
              LAMBDA g1 :
                 IF ~isKustomizationFile(filePath) \/ depth > MaxDepth THEN g1
                 ELSE processReferences(g1, filePath,
                                        Lookup(fileReferences, filePath), depth))

\* the for loop over the references of filePath
processReferences(g, filePath, references, depth) ==
    IF references = << >> THEN g
    ELSE Bind(processFile(
                  [g EXCEPT !.edges = Append(@, [from |-> filePath, to |-> Head(references)])],
                  Head(references), depth + 1),
              LAMBDA g1 : processReferences(g1, filePath, Tail(references), depth))

generateDependencyGraph(startFilePath) == processFile(EmptyGraph, startFilePath, 0)

GraphCallBuildReferenceMap ==
    /\ obs.calls < MaxRebuilds
    /\ builds = << >>
    /\ BuildStart("buildReferenceMap")
    /\ obs' = [calls |-> obs.calls + 1, last |-> NoGraph]
    /\ UNCHANGED << fsVars, fileMetadata, cacheVars, watcherVars >>

\* the visualize command for the file of the active editor
CallGenerateDependencyGraph(startFilePath) ==
    /\ builds = << >>
    /\ obs.calls >= 1
    /\ obs' = [obs EXCEPT !.last =
                  [call |-> "generateDependencyGraph", startFilePath |-> startFilePath,
                   graph |-> generateDependencyGraph(startFilePath)]]
    /\ UNCHANGED << fsVars, indexVars, cacheVars, watcherVars, builds >>

NextGraph ==
    \/ GraphCallBuildReferenceMap
    \/ \E i \in 1..Len(builds) : BuildGlob1(i) /\ UNCHANGED obs
    \/ \E i \in 1..Len(builds) : BuildGlob2(i) /\ UNCHANGED obs
    \/ \E startFilePath \in FilePaths : CallGenerateDependencyGraph(startFilePath)

SpecGraph == InitGraph /\ [][NextGraph]_vars

\* the total length of the forward lists of the index
RECURSIVE SumOfLengths(_, _)
SumOfLengths(m, keys) ==
    IF keys = {} THEN 0
    ELSE LET k == CHOOSE x \in keys : TRUE
         IN Len(m[k]) + SumOfLengths(m, keys \ { k })

NodeIds(graph) == { graph.nodes[i].id : i \in 1..Len(graph.nodes) }

\* F is reachable from itself along the forward references
RECURSIVE ReachableFrom(_, _)
ReachableFrom(seen, frontier) ==
    IF frontier \subseteq seen THEN seen
    ELSE ReachableFrom(seen \cup frontier,
                       UNION { Range(Lookup(fileReferences, F)) : F \in frontier })

OnCycle(F) == F \in ReachableFrom({}, Range(Lookup(fileReferences, F)))

\* C30: generateDependencyGraph returns for every index and start file, after
\* no more processFile calls than one per forward reference of the index and
\* one for the start; no two nodes have the same id; both endpoints of every
\* edge are nodes
C30_DependencyGraph ==
    obs.last.call = "generateDependencyGraph" =>
        LET graph == obs.last.graph IN
        /\ graph.calls <= 1 + SumOfLengths(fileReferences, DOMAIN fileReferences)
        /\ graph.calls = 1 + Len(graph.edges)
        /\ \A i, j \in 1..Len(graph.nodes) :
              graph.nodes[i].id = graph.nodes[j].id => i = j
        /\ \A i \in 1..Len(graph.edges) :
              /\ graph.edges[i].from \in NodeIds(graph)
              /\ graph.edges[i].to \in NodeIds(graph)

\* the graph of a start file that lies on a cycle of references: the edge
\* back to the start file is emitted and the traversal stopped there
C30_Witness ==
    /\ obs.last.call = "generateDependencyGraph"
    /\ OnCycle(obs.last.startFilePath)
    /\ Len(obs.last.graph.nodes) >= 2
    /\ \E i \in 1..Len(obs.last.graph.edges) :
          /\ obs.last.graph.edges[i].to = obs.last.startFilePath
          /\ obs.last.graph.edges[i].from # obs.last.startFilePath

\* the traversal stopped at the depth limit: the file at depth MaxDepth + 1 is
\* a node without edges although the index has references for it
StoppedAtDepth ==
    /\ obs.last.call = "generateDependencyGraph"
    /\ obs.last.startFilePath = PathRootK
    /\ PathAppsK \in NodeIds(obs.last.graph)
    /\ Lookup(fileReferences, PathAppsK) # << >>
    /\ \A i \in 1..Len(obs.last.graph.edges) : obs.last.graph.edges[i].from # PathAppsK

====
